---- MODULE Spec2Model ----
(***************************************************************************)
(* Roth-conversion projection engine of rapro-backend:                     *)
(*   core/roth_conversion_processor.py  (RothConversionProcessor)          *)
(*   core/tax_csv_loader.py             (TaxCSVLoader)                     *)
(*   core/roth_medicare_calculator.py   (RothMedicareCalculator)           *)
(*   core/tests/roth_cpa_auditor.py     (RothCPAAuditor, reference maths)  *)
(*                                                                         *)
(* Money is modelled in whole currency units (balances, incomes, MAGI) and *)
(* in hundredths of a unit (taxes, Medicare premiums).  Decimal division   *)
(* and multiplication by a percentage are modelled by integer arithmetic   *)
(* that truncates below the modelled unit; float() is value preserving at  *)
(* that resolution.                                                        *)
(***************************************************************************)
EXTENDS Integers, Sequences, FiniteSets, TLC

(***************************************************************************)
(* Bounds of the model.                                                    *)
(***************************************************************************)
Horizon == 4            \* the baseline feed ends at CurrentYear + Horizon
MaxYearsToConvert == 3  \* years_to_convert is drawn from 0..MaxYearsToConvert
MaxBrackets == 3        \* rows of a federal bracket table (SpecTax)
MaxTiers == 3           \* rows of an IRMAA threshold table (SpecIrmaa)
MaxInflateYears == 2    \* target_year - tax_year in SpecIrmaa
MaxFields == 3          \* items of a year dict in SpecEstate

(***************************************************************************)
(* Program constants.                                                      *)
(***************************************************************************)
CurrentYear == 2026         \* datetime.datetime.now().year
TaxYear == 2025             \* get_tax_loader(tax_year=2025)
TopBracketSentinel == 999999999
MedicareAge == 65
NoneId == 0 - 1             \* asset.get('id') is None
NoAge == 0                  \* primary_age is None (falsy, like age 0)
NoYear == 0                 \* a year parameter that is None
Unparseable == 0 - 1        \* a birthdate string that strptime(.., '%Y-%m-%d') rejects

Min(a, b) == IF a <= b THEN a ELSE b
Max(a, b) == IF a >= b THEN a ELSE b

RECURSIVE SumSeq(_)
SumSeq(s) == IF s = <<>> THEN 0 ELSE Head(s) + SumSeq(Tail(s))

(***************************************************************************)
(* TaxCSVLoader: federal brackets.                                         *)
(* A bracket row is [min_income, max_income, tax_rate]; tax_rate is in     *)
(* percent, so that a tax is an exact number of hundredths.                *)
(***************************************************************************)
\* list.sort(key=...): a stable ascending sort, as the permutation of indices.
RECURSIVE InsertIndex(_, _, _)
InsertIndex(i, sorted, keys) ==
    IF sorted = <<>> THEN <<i>>
    ELSE IF keys[i] < keys[Head(sorted)] THEN <<i>> \o sorted
    ELSE <<Head(sorted)>> \o InsertIndex(i, Tail(sorted), keys)

RECURSIVE SortIndices(_, _)
SortIndices(n, keys) ==
    IF n = 0 THEN <<>> ELSE InsertIndex(n, SortIndices(n - 1, keys), keys)

SortRows(rows, keys) ==
    LET perm == SortIndices(Len(rows), keys)
    IN  [i \in 1..Len(rows) |-> rows[perm[i]]]

get_federal_tax_brackets(rows) ==
    SortRows(rows, [i \in 1..Len(rows) |-> rows[i].min_income])

RECURSIVE FederalTaxWalk(_, _, _, _, _)
FederalTaxWalk(brackets, i, taxable_income, tax, current_bracket_rate) ==
    IF i > Len(brackets) THEN [tax |-> tax, bracket |-> current_bracket_rate]
    ELSE
      LET bracket_min == brackets[i].min_income
          rate == brackets[i].tax_rate
          bracket_max == IF brackets[i].max_income >= TopBracketSentinel
                         THEN taxable_income ELSE brackets[i].max_income
          taxable_in_bracket == Min(taxable_income, bracket_max) - bracket_min
          tax2 == IF taxable_in_bracket > 0 THEN tax + taxable_in_bracket * rate ELSE tax
          rate2 == IF taxable_in_bracket > 0 THEN rate ELSE current_bracket_rate
      IN  IF taxable_income <= bracket_min
          THEN [tax |-> tax, bracket |-> current_bracket_rate]
          ELSE IF taxable_income <= bracket_max
               THEN [tax |-> tax2, bracket |-> rate2]
               ELSE FederalTaxWalk(brackets, i + 1, taxable_income, tax2, rate2)

calculate_federal_tax_NoBracketFloor(taxable_income, rows) ==
    LET brackets == get_federal_tax_brackets(rows)
        Walk[i \in 1..(Len(brackets) + 1)] ==
            IF i > Len(brackets) THEN 0
            ELSE IF taxable_income <= brackets[i].min_income THEN 0
            ELSE LET bmax == IF brackets[i].max_income >= TopBracketSentinel
                             THEN taxable_income ELSE brackets[i].max_income
                 IN  Min(taxable_income, bmax) * brackets[i].tax_rate
                     + (IF taxable_income <= bmax THEN 0 ELSE Walk[i + 1])
    IN  [tax |-> Walk[1], bracket |-> 10]

calculate_federal_tax(taxable_income, rows) ==
    FederalTaxWalk(get_federal_tax_brackets(rows), 1, taxable_income, 0, 10)

(***************************************************************************)
(* RothCPAAuditor._calculate_federal_tax: the reference computation over   *)
(* (limit, rate) pairs; the last limit is float('inf').                    *)
(***************************************************************************)
RECURSIVE AuditorTaxWalk(_, _, _, _, _)
AuditorTaxWalk(brackets, i, taxable_income, tax, prev_limit) ==
    IF i > Len(brackets) THEN tax
    ELSE IF brackets[i].inf \/ taxable_income <= brackets[i].limit
         THEN tax + (taxable_income - prev_limit) * brackets[i].rate
         ELSE AuditorTaxWalk(brackets, i + 1, taxable_income,
                             tax + (brackets[i].limit - prev_limit) * brackets[i].rate,
                             brackets[i].limit)

auditor_calculate_federal_tax(taxable_income, brackets) ==
    IF taxable_income <= 0 THEN 0
    ELSE AuditorTaxWalk(brackets, 1, taxable_income, 0, 0)

\* The auditor's (limit, rate) list of an ascending loader table.
AuditorBrackets(brackets) ==
    [i \in 1..Len(brackets) |->
        [limit |-> brackets[i].max_income,
         inf   |-> brackets[i].max_income >= TopBracketSentinel,
         rate  |-> brackets[i].tax_rate]]

(***************************************************************************)
(* TaxCSVLoader: IRMAA thresholds.  A row is                               *)
(* [magi_threshold, part_b_surcharge, part_d_surcharge]; surcharges are    *)
(* monthly amounts in hundredths.                                          *)
(***************************************************************************)
IrmaaInflationPct == 1      \* inflation_rates.get('irmaa_thresholds', Decimal('1.0'))
PartBInflationPct == 5      \* part_b_inflation_rate = Decimal('0.05')
PartDInflationPct == 5      \* part_d_inflation_rate = Decimal('0.05')

\* value * ((1 + pct/100) ** years)
RECURSIVE Inflate(_, _, _)
Inflate(value, pct, years) ==
    IF years <= 0 THEN value
    ELSE Inflate((value * (100 + pct)) \div 100, pct, years - 1)

get_irmaa_thresholds(rows) ==
    SortRows(rows, [i \in 1..Len(rows) |-> rows[i].magi_threshold])

get_inflated_irmaa_thresholds(rows, target_year, tax_year) ==
    LET base_thresholds == get_irmaa_thresholds(rows)
        years_to_inflate == target_year - tax_year
    IN  IF years_to_inflate <= 0 THEN base_thresholds
        ELSE [i \in 1..Len(base_thresholds) |->
                [magi_threshold |->
                     Inflate(base_thresholds[i].magi_threshold, IrmaaInflationPct, years_to_inflate),
                 part_b_surcharge |->
                     Inflate(base_thresholds[i].part_b_surcharge, PartBInflationPct, years_to_inflate),
                 part_d_surcharge |->
                     Inflate(base_thresholds[i].part_d_surcharge, PartDInflationPct, years_to_inflate)]]

\* for threshold in reversed(thresholds): if magi > threshold: ...; break
RECURSIVE IrmaaSearch_AtOrAbove(_, _, _)
IrmaaSearch_AtOrAbove(thresholds, i, magi) ==
    IF i = 0 THEN [part_b |-> 0, part_d |-> 0]
    ELSE IF magi >= thresholds[i].magi_threshold
         THEN [part_b |-> thresholds[i].part_b_surcharge,
               part_d |-> thresholds[i].part_d_surcharge]
         ELSE IrmaaSearch_AtOrAbove(thresholds, i - 1, magi)

RECURSIVE IrmaaSearch(_, _, _)
IrmaaSearch(thresholds, i, magi) ==
    IF i = 0 THEN [part_b |-> 0, part_d |-> 0]
    ELSE IF magi > thresholds[i].magi_threshold
         THEN [part_b |-> thresholds[i].part_b_surcharge,
               part_d |-> thresholds[i].part_d_surcharge]
         ELSE IrmaaSearch(thresholds, i - 1, magi)

calculate_irmaa_with_inflation(magi, rows, target_year, tax_year) ==
    LET thresholds == get_inflated_irmaa_thresholds(rows, target_year, tax_year)
    IN  IrmaaSearch(thresholds, Len(thresholds), magi)

calculate_irmaa(magi, rows) ==
    LET thresholds == get_irmaa_thresholds(rows)
    IN  IrmaaSearch(thresholds, Len(thresholds), magi)

(***************************************************************************)
(* IRS Uniform Lifetime Table, ages 72..120; factors are stored times 10.  *)
(***************************************************************************)
RMD_TABLE ==
    <<274, 265, 255, 246, 237, 229, 220, 211,
      202, 194, 185, 177, 168, 160, 152, 144,
      137, 129, 122, 115, 108, 101, 95, 89,
      84, 78, 73, 68, 64, 60, 56, 52,
      49, 46, 43, 41, 39, 37, 35,
      34, 33, 31, 30, 29, 28, 27,
      25, 23, 20>>

RmdTableFirstAge == 72

RmdTableHas(age) == age >= RmdTableFirstAge /\ age < RmdTableFirstAge + Len(RMD_TABLE)

LifeExpectancyFactor10(age) == RMD_TABLE[age - RmdTableFirstAge + 1]

get_rmd_start_age(birth_year) ==
    IF birth_year <= 1950 THEN 72
    ELSE IF birth_year <= 1951 THEN 73
    ELSE IF birth_year <= 1959 THEN 73
    ELSE 75

\* income types of the model and str.lower() on them
IncomeTypes == {"Qualified", "traditional_ira", "Roth IRA", "Non-Qualified"}

Lower(income_type) ==
    CASE income_type = "Qualified" -> "qualified"
      [] income_type = "traditional_ira" -> "traditional_ira"
      [] income_type = "Roth IRA" -> "roth ira"
      [] income_type = "Non-Qualified" -> "non-qualified"
      [] OTHER -> income_type

requires_rmd(asset) ==
    \/ asset.income_type \in {"Qualified", "Traditional IRA", "401(k)", "SEP IRA", "403(b)",
                              "Inherited Traditional", "Inherited Traditional Spouse",
                              "Inherited Traditional Non-Spouse"}
    \/ Lower(asset.income_type) \in {"qualified", "401k", "traditional_ira", "sep_ira", "403b",
                                     "inherited traditional", "inherited traditional spouse",
                                     "inherited traditional non-spouse"}

(***************************************************************************)
(* State.                                                                  *)
(***************************************************************************)
VARIABLES
    \* RothConversionProcessor.__init__ arguments and attributes
    client,                     \* [birth_year]; birth_year 0: no birthdate
    spouse,                     \* [present, birth_year]
    scenario,                   \* [retirement_age, tax_filing_status, primary_state]
    assets,                     \* sequence of asset records
    conversion_start_year,      \* NoYear when missing
    years_to_convert,
    pre_retirement_income,
    roth_growth_rate,           \* percent
    max_annual_amount,
    roth_withdrawal_amount,
    roth_withdrawal_start_year, \* NoYear when missing
    annual_conversion,
    total_conversion,
    asset_conversion_map,       \* str(asset id) or income_type -> max_to_convert
    synthetic_roth_assets,      \* number of 'synthetic_roth' entries of self.assets
    magi_history,               \* year -> MAGI
    roth_balance_by_year,       \* year -> Roth ledger at the end of the year
    asset_balances_by_year,     \* year -> (asset id -> ending balance)
    \* process(): position and locals
    pc,
    year,
    earliest_year_in_results,
    row_index,                  \* position of "for baseline_row in baseline_results"
    pre_retirement_results,
    baseline_results,
    conversion_results,
    metrics,                    \* result['metrics'] once process() returns
    \* the caller of the processor
    conversion_params,          \* the conversion_params dict passed to __init__
    first_result,               \* what the first process() returned, once it is run again
    \* module tax_csv_loader and the threads that call it (SpecLoader)
    current_loader,             \* _current_loader: 0 is None, else a position in loaders
    loaders,                    \* the TaxCSVLoader objects made so far: [tax_year, cache]
    threads,                    \* per thread: the call it makes and how far it is
    \* a call of a pure function on its own (SpecTax, SpecIrmaa, ...)
    fn,
    args,
    result

params == <<client, spouse, scenario, assets, conversion_start_year, pre_retirement_income,
            roth_growth_rate, max_annual_amount, roth_withdrawal_amount>>
schedule == <<years_to_convert, roth_withdrawal_start_year, annual_conversion,
              total_conversion, asset_conversion_map, synthetic_roth_assets>>
ledgers == <<magi_history, roth_balance_by_year, asset_balances_by_year>>
locals == <<pc, year, earliest_year_in_results, row_index, pre_retirement_results,
            baseline_results, conversion_results>>
output == <<metrics>>
caller == <<conversion_params, first_result>>
tax_loader == <<current_loader, loaders, threads>>
call == <<fn, args, result>>
vars == <<params, schedule, ledgers, locals, output, caller, tax_loader, call>>

\* dict[key] = value
DictSet(d, key, value) ==
    [x \in (DOMAIN d) \cup {key} |-> IF x = key THEN value ELSE d[x]]

\* dict.get(key, default)
DictGet(d, key, default) == IF key \in DOMAIN d THEN d[key] ELSE default

EmptyDict == << >>

(***************************************************************************)
(* RothConversionProcessor: helpers.                                       *)
(***************************************************************************)
\* str(asset_id)
IdStr(id) ==
    CASE id = NoneId -> "None"
      [] id = 0 -> "0"
      [] id = 1 -> "1"
      [] id = 2 -> "2"
      [] id = 3 -> "3"
      [] OTHER -> "4"

\* "if asset_id": None and 0 are falsy
IdTruthy(id) == id # NoneId /\ id # 0

\* line 85 raises ValueError for an unparseable string: RetirementYearRaises
calculate_retirement_year ==
    (IF client.birth_year # 0 THEN client.birth_year ELSE CurrentYear - 60)
        + scenario.retirement_age

\* the window test written at lines 610, 661, 777, 1808 and 1894
InConversionWindow(y) ==
    y >= conversion_start_year /\ y < conversion_start_year + years_to_convert

calculate_rmd_for_asset(asset, previous_year_balance, owner_age) ==
    LET birth_year == IF asset.owned_by = "primary" THEN client.birth_year
                      ELSE IF spouse.present THEN spouse.birth_year ELSE 0
    IN  IF ~requires_rmd(asset) THEN 0
        ELSE IF birth_year = 0 THEN 0
        ELSE IF owner_age < get_rmd_start_age(birth_year) THEN 0
        ELSE IF ~RmdTableHas(owner_age) THEN 0
        ELSE (previous_year_balance * 10) \div LifeExpectancyFactor10(owner_age)

\* balance *= (1 + rate_of_return), rate_of_return in percent
Grow(balance, rate_pct) == (balance * (100 + rate_pct)) \div 100

(***************************************************************************)
(* RothConversionProcessor._calculate_asset_balances_with_growth           *)
(***************************************************************************)
\* client_birth_year of lines 526-532
ClientBirthYear == IF client.birth_year # 0 THEN client.birth_year ELSE CurrentYear - 50

\* lines 609-622 and 660-672: the amount to convert from one asset in one year
ConversionFor(asset, projection_year, balance, apply_conversions) ==
    IF /\ apply_conversions
       /\ requires_rmd(asset)
       /\ InConversionWindow(projection_year)
       /\ IdTruthy(asset.id)
       /\ IdStr(asset.id) \in DOMAIN asset_conversion_map
    THEN Min(asset_conversion_map[IdStr(asset.id)] \div years_to_convert, balance)
    ELSE 0

\* lines 647-694: for yr in range(years_to_project)
RECURSIVE ProjectYears(_, _, _, _, _, _, _, _)
ProjectYears(asset, projection_year, target_year, balance, previous_balance, contributed, last, apply_conversions) ==
    IF projection_year > target_year
    THEN [balance |-> balance, previous_balance |-> previous_balance,
          contributed |-> contributed, last |-> last]
    ELSE
      LET conversion_amount == ConversionFor(asset, projection_year, balance, apply_conversions)
          converted == IF conversion_amount > 0 THEN conversion_amount ELSE 0
          grown == Grow(balance - converted, asset.rate_of_return)
          rmd == calculate_rmd_for_asset(asset, previous_balance,
                                         projection_year - ClientBirthYear)
          after_rmd == IF rmd > 0 THEN grown - rmd ELSE grown
      IN  ProjectYears(asset, projection_year + 1, target_year, after_rmd, after_rmd,
                       contributed + converted,
                       [pre |-> balance, conv |-> converted, grown |-> grown,
                        loop_rmd |-> IF rmd > 0 THEN rmd ELSE 0],
                       apply_conversions)

\* line 584: the continuity ledger holds the asset's balance of previous_year
HasPreviousBalance(asset, previous_year) ==
    /\ previous_year \in DOMAIN asset_balances_by_year
    /\ asset.id # NoneId
    /\ asset.id \in DOMAIN asset_balances_by_year[previous_year]

\* lines 560-771 for one asset: the balance the year starts from, what is
\* converted, the growth, the RMD reported for the target year and the
\* ending balance
ProjectAsset(asset, target_year, apply_conversions) ==
    LET previous_year == target_year - 1
        from_ledger == HasPreviousBalance(asset, previous_year)
        current_balance == IF from_ledger
                           THEN asset_balances_by_year[previous_year][asset.id]
                           ELSE asset.current_asset_balance
        projection_start_year == IF from_ledger THEN previous_year ELSE CurrentYear
        target_year_age == target_year - ClientBirthYear
        \* target_year == current_year, lines 601-637
        now_conv == ConversionFor(asset, CurrentYear, current_balance, apply_conversions)
        now_converted == IF now_conv > 0 THEN now_conv ELSE 0
        now_grown == Grow(current_balance - now_converted, asset.rate_of_return)
        \* otherwise, lines 638-694
        loop == ProjectYears(asset, projection_start_year + 1, target_year,
                             current_balance, current_balance, 0,
                             [pre |-> current_balance, conv |-> 0,
                              grown |-> current_balance, loop_rmd |-> 0],
                             apply_conversions)
        is_now == target_year = CurrentYear
        balance == IF is_now THEN now_grown ELSE loop.balance
        rmd_for_target_year ==
            IF target_year > CurrentYear
            THEN calculate_rmd_for_asset(asset, loop.previous_balance, target_year_age)
            ELSE calculate_rmd_for_asset(asset, balance, target_year_age)
        reported == IF rmd_for_target_year > 0 THEN rmd_for_target_year ELSE 0
    IN  [id |-> asset.id,
         start |-> current_balance,
         from_ledger |-> from_ledger,
         pre |-> IF is_now THEN current_balance ELSE loop.last.pre,
         conv |-> IF is_now THEN now_converted ELSE loop.last.conv,
         grown |-> IF is_now THEN now_grown ELSE loop.last.grown,
         loop_rmd |-> IF is_now THEN 0 ELSE loop.last.loop_rmd,
         contributed |-> IF is_now THEN now_converted ELSE loop.contributed,
         rmd |-> reported,
         balance |-> balance - reported]

\* lines 765-771: the ledger after the assets of one call are stored
RECURSIVE StoreBalances(_, _, _)
StoreBalances(per_asset, i, entry) ==
    IF i > Len(per_asset) THEN entry
    ELSE StoreBalances(per_asset, i + 1,
                       IF per_asset[i].id # NoneId
                       THEN DictSet(entry, per_asset[i].id, per_asset[i].balance)
                       ELSE entry)

\* lines 773-813: the Roth ledger of the year, once every asset is projected
RothLedgerYear(target_year, apply_conversions, per_asset, roth_start, contributed) ==
    LET roth_after_conversions == roth_start + contributed
        is_conversion_year == InConversionWindow(target_year)
        grows == roth_after_conversions > 0 /\ apply_conversions /\ ~is_conversion_year
        roth_after_growth == IF grows THEN Grow(roth_after_conversions, roth_growth_rate)
                             ELSE roth_after_conversions
        withdraws == /\ roth_withdrawal_start_year # NoYear
                     /\ roth_withdrawal_amount > 0
                     /\ target_year >= roth_withdrawal_start_year
        roth_withdrawal == IF withdraws THEN Min(roth_withdrawal_amount, roth_after_growth)
                           ELSE 0
        roth_balance == roth_after_growth - roth_withdrawal
        stored == apply_conversions /\ \E i \in 1..Len(assets) : per_asset[i].id # NoneId
        old_entry == DictGet(asset_balances_by_year, target_year, EmptyDict)
    IN  [assets |-> per_asset,
         rmd_total |-> SumSeq([i \in 1..Len(assets) |-> per_asset[i].rmd]),
         roth_ira_balance |-> IF roth_balance > 0 THEN roth_balance ELSE 0,
         tax_free_income |-> roth_withdrawal,
         roth |-> [carried |-> roth_start, contributed |-> contributed,
                   grew |-> grows, ending |-> roth_balance],
         asset_ledger |-> IF stored
                          THEN DictSet(asset_balances_by_year, target_year,
                                       StoreBalances(per_asset, 1, old_entry))
                          ELSE asset_balances_by_year,
         roth_ledger |-> IF apply_conversions
                         THEN DictSet(roth_balance_by_year, target_year, roth_balance)
                         ELSE roth_balance_by_year]

\* lines 560-771 for every asset, then the Roth ledger
ProjectedAssets(target_year, apply_conversions, per_asset) ==
    RothLedgerYear(target_year, apply_conversions, per_asset,
                   IF target_year = CurrentYear THEN 0
                   ELSE DictGet(roth_balance_by_year, target_year - 1, 0),
                   SumSeq([i \in 1..Len(assets) |-> per_asset[i].contributed]))

\* The whole call.  The result holds the returned balances and the two
\* ledgers as the call leaves them.
calculate_asset_balances_with_growth(target_year, apply_conversions) ==
    ProjectedAssets(target_year, apply_conversions,
                    [i \in 1..Len(assets) |->
                        ProjectAsset(assets[i], target_year, apply_conversions)])

(***************************************************************************)
(* Reference data served by get_tax_loader() to the processor: one federal *)
(* bracket table, standard deduction, Medicare base rates, IRMAA tiers and *)
(* state rules of the loader's tax year.                                   *)
(***************************************************************************)
FederalBracketRows ==
    << [min_income |-> 0,    max_income |-> 1000, tax_rate |-> 10],
       [min_income |-> 1000, max_income |-> 4000, tax_rate |-> 20],
       [min_income |-> 4000, max_income |-> TopBracketSentinel, tax_rate |-> 30] >>

StandardDeductionAmount == 500

IrmaaRows ==
    << [magi_threshold |-> 0,    part_b_surcharge |-> 0,     part_d_surcharge |-> 0],
       [magi_threshold |-> 2000, part_b_surcharge |-> 7400,  part_d_surcharge |-> 1300],
       [magi_threshold |-> 5000, part_b_surcharge |-> 18500, part_d_surcharge |-> 3300] >>

MedicareBasePartB == 18500
MedicareBasePartD == 7100

StateIncomeTaxRatePct == 5

\* TaxCSVLoader.get_state_tax_info
get_state_tax_info(state_code) ==
    IF state_code = "CA"
    THEN [income_tax_rate |-> StateIncomeTaxRatePct,
          retirement_income_exempt |-> "false", ss_taxed |-> FALSE]
    ELSE [income_tax_rate |-> 0, retirement_income_exempt |-> "true", ss_taxed |-> FALSE]

\* _calculate_federal_tax_and_bracket and _get_standard_deduction
calculate_federal_tax_and_bracket(taxable_income) ==
    calculate_federal_tax(taxable_income, FederalBracketRows)

get_standard_deduction == StandardDeductionAmount

\* _calculate_state_tax (hundredths)
calculate_state_tax(agi, taxable_ss) ==
    IF scenario.primary_state = "" THEN 0
    ELSE LET state_info == get_state_tax_info(scenario.primary_state)
             state_taxable_income == IF state_info.ss_taxed = FALSE
                                     THEN agi - taxable_ss ELSE agi
         IN  IF state_info.retirement_income_exempt # "true"
             THEN Max(0, state_taxable_income * state_info.income_tax_rate)
             ELSE 0

\* _calculate_medicare_costs: annual amounts in hundredths
calculate_medicare_costs(magi, target_year) ==
    LET surcharge == IF target_year # NoYear
                     THEN calculate_irmaa_with_inflation(magi, IrmaaRows, target_year, TaxYear)
                     ELSE calculate_irmaa(magi, IrmaaRows)
        joint == scenario.tax_filing_status = "married filing jointly"
        factor == IF joint THEN 2 ELSE 1
        base_part_b == MedicareBasePartB * factor
        base_part_d == MedicareBasePartD * factor
        part_b_surcharge == surcharge.part_b * factor
        part_d_irmaa == surcharge.part_d * factor
    IN  [total_medicare |-> (base_part_b + part_b_surcharge + base_part_d + part_d_irmaa) * 12,
         irmaa_surcharge |-> (part_b_surcharge + part_d_irmaa) * 12]

\* a MAGI already recorded for the year is kept
StoreMagi_KeepRecorded(history, y, magi) ==
    IF y \in DOMAIN history THEN history ELSE DictSet(history, y, magi)

\* self.magi_history[year] = magi
StoreMagi(history, y, magi) == DictSet(history, y, magi)

\* magi_history.get(year - 2, magi)
LookbackMagi_CurrentOnly(history, y, magi) == magi

LookbackMagi(history, y, magi) == DictGet(history, y - 2, magi)

\* the "Medicare/IRMAA if age >= 65" block of a year row;
\* history already holds the MAGI of year y
MedicareFields(history, y, primary_age, magi) ==
    IF primary_age # NoAge /\ primary_age >= MedicareAge
    THEN LET lookback_magi == LookbackMagi(history, y, magi)
             cost == calculate_medicare_costs(lookback_magi, y)
         IN  [medicare_base |-> cost.total_medicare - cost.irmaa_surcharge,
              irmaa_surcharge |-> cost.irmaa_surcharge,
              total_medicare |-> cost.total_medicare,
              on_medicare |-> TRUE,
              irmaa_income |-> lookback_magi]
    ELSE [medicare_base |-> 0, irmaa_surcharge |-> 0, total_medicare |-> 0,
          on_medicare |-> FALSE, irmaa_income |-> 0]

\* primary_age / spouse_age of a synthesized year
PrimaryAge(y) == IF client.birth_year # 0 THEN y - client.birth_year ELSE NoAge
SpouseAge(y) == IF spouse.present /\ spouse.birth_year # 0 THEN y - spouse.birth_year ELSE NoAge

\* _calculate_gross_income_for_year
AssetIncomeForYear(asset, primary_age, spouse_age) ==
    LET current_age == IF asset.owned_by = "primary" THEN primary_age ELSE spouse_age
    IN  IF current_age = NoAge THEN 0
        ELSE IF asset.age_to_begin_withdrawal <= current_age
                /\ current_age <= asset.age_to_end_withdrawal
             THEN asset.monthly_amount * 12 + asset.withdrawal_amount
             ELSE 0

calculate_gross_income_for_year(y, primary_age, spouse_age) ==
    pre_retirement_income
      + SumSeq([i \in 1..Len(assets) |-> AssetIncomeForYear(assets[i], primary_age, spouse_age)])

(***************************************************************************)
(* RothConversionProcessor.process(): the year rows.                       *)
(* A row carries the fields of the year dict that the properties read; the *)
(* fields assets and roth keep, per asset and for the Roth ledger, the     *)
(* intermediate values of the projection call that produced the row.       *)
(***************************************************************************)
NoProjection ==
    [assets |-> << >>, rmd_total |-> 0, roth_ira_balance |-> 0, tax_free_income |-> 0,
     roth |-> [carried |-> 0, contributed |-> 0, grew |-> FALSE, ending |-> 0]]

YearRow(phase, y, primary_age, gross_income, ss_income, taxable_ss, roth_conversion, magi, taxable_income, federal_tax, regular_income_tax, conversion_tax, state_tax, medicare, projection) ==
    [phase |-> phase, year |-> y, primary_age |-> primary_age,
     gross_income |-> gross_income, ss_income |-> ss_income, taxable_ss |-> taxable_ss,
     roth_conversion |-> roth_conversion, conversion_amount |-> 0, magi |-> magi,
     taxable_income |-> taxable_income, federal_tax |-> federal_tax,
     regular_income_tax |-> regular_income_tax, conversion_tax |-> conversion_tax,
     state_tax |-> state_tax,
     medicare_base |-> medicare.medicare_base, irmaa_surcharge |-> medicare.irmaa_surcharge,
     total_medicare |-> medicare.total_medicare, on_medicare |-> medicare.on_medicare,
     irmaa_income |-> medicare.irmaa_income,
     assets |-> projection.assets, rmd_total |-> projection.rmd_total,
     roth_ira_balance |-> projection.roth_ira_balance,
     tax_free_income |-> projection.tax_free_income, roth |-> projection.roth]

\* lines 1673-1758: a pre-retirement year of the baseline
BaselinePreRetirementRowWith(y, projection) ==
    LET primary_age == PrimaryAge(y)
        gross_income == calculate_gross_income_for_year(y, primary_age, SpouseAge(y))
        taxable_income == IF gross_income > 0
                          THEN Max(0, gross_income - get_standard_deduction)
                          ELSE gross_income
        federal_tax == IF gross_income > 0
                       THEN calculate_federal_tax_and_bracket(taxable_income).tax ELSE 0
        state_tax == IF gross_income > 0 THEN calculate_state_tax(gross_income, 0) ELSE 0
        magi == gross_income
        history == StoreMagi(magi_history, y, magi)
        medicare == MedicareFields(history, y, primary_age, magi)
    IN  [row |-> YearRow("pre", y, primary_age, gross_income, 0, 0, 0, magi, taxable_income,
                         federal_tax, 0, 0, state_tax, medicare, projection),
         history |-> history, projection |-> projection]

BaselinePreRetirementRow(y) ==
    BaselinePreRetirementRowWith(y, calculate_asset_balances_with_growth(y, FALSE))

\* the amount process() records and taxes as the year's conversion
RecordedConversion(y) == IF InConversionWindow(y) THEN annual_conversion ELSE 0

\* federal_tax(income + conversion) - federal_tax(income), after the deduction
ConversionTaxOf_FirstYearIncome(income, conversion_amount) ==
    LET regular == calculate_federal_tax_and_bracket(
                       Max(0, pre_retirement_income - get_standard_deduction)).tax
        total == calculate_federal_tax_and_bracket(
                     Max(0, income + conversion_amount - get_standard_deduction)).tax
    IN  [regular_income_tax |-> regular, federal_tax |-> total,
         conversion_tax |-> total - regular]

ConversionTaxOf(income, conversion_amount) ==
    LET regular == calculate_federal_tax_and_bracket(
                       Max(0, income - get_standard_deduction)).tax
        total == calculate_federal_tax_and_bracket(
                     Max(0, income + conversion_amount - get_standard_deduction)).tax
    IN  [regular_income_tax |-> regular, federal_tax |-> total,
         conversion_tax |-> total - regular]

\* lines 1782-1878: a pre-retirement year of the conversion timeline
ConversionPreRetirementRowWith(y, projection) ==
    LET primary_age == PrimaryAge(y)
        gross_income == calculate_gross_income_for_year(y, primary_age, SpouseAge(y))
        conversion_amount == RecordedConversion(y)
        total_income == gross_income + conversion_amount
        taxes == ConversionTaxOf(gross_income, conversion_amount)
        taxed == total_income > 0
        magi == gross_income + conversion_amount
        history == StoreMagi(magi_history, y, magi)
        medicare == MedicareFields(history, y, primary_age, magi)
    IN  [row |-> YearRow("pre", y, primary_age, gross_income, 0, 0, conversion_amount, magi,
                         IF taxed THEN Max(0, total_income - get_standard_deduction)
                         ELSE total_income,
                         IF taxed THEN taxes.federal_tax ELSE 0,
                         IF taxed THEN taxes.regular_income_tax ELSE 0,
                         IF taxed THEN taxes.conversion_tax ELSE 0,
                         IF taxed THEN calculate_state_tax(total_income, 0) ELSE 0,
                         medicare, projection),
         history |-> history, projection |-> projection]

ConversionPreRetirementRow(y) ==
    ConversionPreRetirementRowWith(y, calculate_asset_balances_with_growth(y, TRUE))

\* lines 1887-2038: a retirement year of the conversion timeline
ConversionRetirementRowWith(baseline_row, projection) ==
    LET y == baseline_row.year
        conversion_amount == RecordedConversion(y)
        \* "{asset_id}_income" is written for the assets that have an id
        asset_income == SumSeq([i \in 1..Len(assets) |->
                                   IF assets[i].id # NoneId THEN projection.assets[i].rmd ELSE 0])
        gross_income == baseline_row.ss_income + asset_income
        taxable_ss == baseline_row.taxable_ss
        agi == gross_income + taxable_ss + conversion_amount
        magi == agi
        history == StoreMagi(magi_history, y, magi)
        taxes == ConversionTaxOf(gross_income + taxable_ss, conversion_amount)
        medicare == MedicareFields(history, y, baseline_row.primary_age, magi)
    IN  [row |-> YearRow("ret", y, baseline_row.primary_age, gross_income,
                         baseline_row.ss_income, taxable_ss, conversion_amount, magi,
                         Max(0, agi - get_standard_deduction),
                         taxes.federal_tax, taxes.regular_income_tax, taxes.conversion_tax,
                         calculate_state_tax(agi, taxable_ss), medicare, projection),
         history |-> history, projection |-> projection]

ConversionRetirementRow(baseline_row) ==
    ConversionRetirementRowWith(baseline_row,
                                calculate_asset_balances_with_growth(baseline_row.year, TRUE))

(***************************************************************************)
(* Inputs of a run.                                                        *)
(***************************************************************************)
Asset(id, income_type, owned_by, balance, rate, max_to_convert, monthly_amount) ==
    [id |-> id, income_type |-> income_type, owned_by |-> owned_by,
     current_asset_balance |-> balance, rate_of_return |-> rate,
     max_to_convert |-> max_to_convert, monthly_amount |-> monthly_amount,
     withdrawal_amount |-> 0, age_to_begin_withdrawal |-> 0, age_to_end_withdrawal |-> 120]

AssetLists ==
    { << Asset(1, "Qualified", "primary", 6000, 0, 6000, 0) >>,
      << Asset(1, "Qualified", "primary", 12000, 10, 6000, 0) >>,
      << Asset(1, "traditional_ira", "primary", 12000, 10, 6000, 0),
         Asset(2, "Roth IRA", "primary", 3000, 10, 0, 0) >>,
      << Asset(1, "Qualified", "primary", 9000, 10, 3000, 0),
         Asset(NoneId, "Qualified", "primary", 6000, 10, 0, 0) >>,
      << Asset(2, "Qualified", "primary", 9000, 0, 3000, 0),
         Asset(0, "Non-Qualified", "primary", 6000, 10, 0, 50) >>,
      << Asset(3, "Qualified", "primary", 6000, 10, 9000, 0),
         Asset(4, "Roth IRA", "primary", 3000, 10, 0, 0) >>,
      << Asset(1, "Qualified", "primary", 6000, 0, 3000, 0),
         Asset(2, "traditional_ira", "spouse", 6000, 10, 0, 0) >> }

\* a spouse is present in the households that hold a spouse-owned asset
Spouses == { [present |-> FALSE, birth_year |-> 0],
             [present |-> TRUE, birth_year |-> 1962] }

BirthYears == {1936, 1953, 1962}

ConversionStartYears == {NoYear, CurrentYear - 1, CurrentYear, CurrentYear + 1}

MaxAnnualAmounts == {0, 1500, 2500}

PreRetirementIncomes == {0, 3000}

RothWithdrawals == { [amount |-> 0, start_year |-> NoYear],
                     [amount |-> 1000, start_year |-> CurrentYear + 1] }

Scenarios(birth_year) ==
    { [retirement_age |-> CurrentYear - birth_year, tax_filing_status |-> "single",
       primary_state |-> "", ss_income |-> 1200],
      [retirement_age |-> CurrentYear + 2 - birth_year, tax_filing_status |-> "single",
       primary_state |-> "CA", ss_income |-> 1200],
      [retirement_age |-> CurrentYear + 2 - birth_year,
       tax_filing_status |-> "married filing jointly",
       primary_state |-> "", ss_income |-> 0] }

LastYear == CurrentYear + Horizon

IdleCall == fn = "none" /\ args = << >> /\ result = << >>

\* _current_loader = None and no thread at work
IdleLoader == current_loader = 0 /\ loaders = << >> /\ threads = << >>

\* no process() call has returned to the caller yet
NoResult == [run |-> "none"]

\* the processor before __init__ runs its validation
Init ==
    /\ client \in [birth_year : BirthYears \cup {Unparseable}]
    /\ scenario \in Scenarios(IF client.birth_year = Unparseable THEN 1953
                               ELSE client.birth_year)
    /\ assets \in AssetLists
    /\ spouse \in Spouses
    /\ spouse.present <=> (\E i \in 1..Len(assets) : assets[i].owned_by = "spouse")
    /\ conversion_start_year \in ConversionStartYears
    /\ years_to_convert \in 0..MaxYearsToConvert
    /\ pre_retirement_income \in PreRetirementIncomes
    /\ roth_growth_rate = 5
    /\ max_annual_amount \in MaxAnnualAmounts
    /\ \E w \in RothWithdrawals :
          /\ roth_withdrawal_amount = w.amount
          /\ roth_withdrawal_start_year = w.start_year
    \* an invalid plan is combined with one choice of the other inputs
    /\ (conversion_start_year = NoYear \/ years_to_convert = 0)
          => /\ max_annual_amount = 0
             /\ pre_retirement_income = 0
             /\ roth_withdrawal_amount = 0
             /\ client.birth_year = 1953
    \* an unparseable birthdate is combined with one choice of the amounts
    /\ client.birth_year = Unparseable
          => /\ max_annual_amount = 0
             /\ pre_retirement_income = 0
             /\ roth_withdrawal_amount = 0
    /\ annual_conversion = 0
    /\ total_conversion = 0
    /\ asset_conversion_map = EmptyDict
    /\ synthetic_roth_assets = 0
    /\ magi_history = EmptyDict
    /\ roth_balance_by_year = EmptyDict
    /\ asset_balances_by_year = EmptyDict
    /\ conversion_params = [years_to_convert |-> years_to_convert,
                            roth_withdrawal_start_year |-> roth_withdrawal_start_year]
    /\ first_result = NoResult
    /\ pc = "new"
    /\ year = NoYear
    /\ earliest_year_in_results = NoYear
    /\ row_index = 0
    /\ pre_retirement_results = << >>
    /\ baseline_results = << >>
    /\ conversion_results = << >>
    /\ metrics = EmptyDict
    /\ IdleLoader
    /\ IdleCall

(***************************************************************************)
(* RothConversionProcessor.__init__ -> _validate_conversion_params         *)
(***************************************************************************)
ParamsInvalid == conversion_start_year = NoYear \/ years_to_convert <= 0

Construct ==
    /\ pc = "new"
    /\ ~ParamsInvalid
    /\ LET conversion_end_year == conversion_start_year + years_to_convert - 1
       IN  roth_withdrawal_start_year' =
               IF /\ roth_withdrawal_start_year # NoYear
                  /\ roth_withdrawal_amount > 0
                  /\ roth_withdrawal_start_year <= conversion_end_year
               THEN conversion_end_year + 1
               ELSE roth_withdrawal_start_year
    /\ pc' = "constructed"
    /\ UNCHANGED <<tax_loader, params, years_to_convert, annual_conversion, total_conversion,
                   asset_conversion_map, synthetic_roth_assets, ledgers, year, earliest_year_in_results, row_index,
                   pre_retirement_results, baseline_results, conversion_results, call, output, caller>>

\* raise ValueError(...)
ConstructRaises ==
    /\ pc = "new"
    /\ ParamsInvalid
    /\ pc' = "raised"
    /\ UNCHANGED <<tax_loader, params, schedule, ledgers, year, earliest_year_in_results, row_index,
                   pre_retirement_results, baseline_results, conversion_results, call, output, caller>>

(***************************************************************************)
(* process() -> _prepare_assets_for_conversion                             *)
(***************************************************************************)
\* Decimal.quantize(Decimal('1')) of n/d for n >= 0, d > 0: ROUND_HALF_EVEN
RoundHalfEven(n, d) ==
    LET q == n \div d
        r == n % d
    IN  IF 2 * r < d THEN q
        ELSE IF 2 * r > d THEN q + 1
        ELSE IF q % 2 = 0 THEN q ELSE q + 1

\* key of asset_conversion_map: str(asset_id) if asset_id else income_type
ConversionMapKey(asset) == IF IdTruthy(asset.id) THEN IdStr(asset.id) ELSE asset.income_type

RECURSIVE BuildConversionMap(_, _)
BuildConversionMap(i, map) ==
    IF i > Len(assets) THEN map
    ELSE BuildConversionMap(i + 1,
             IF assets[i].max_to_convert # 0
             THEN DictSet(map, ConversionMapKey(assets[i]), assets[i].max_to_convert)
             ELSE map)

\* the requested amount compared with the balance of all assets together
ExceedsBalance_AgainstTotal ==
    \E i \in 1..Len(assets) :
        assets[i].max_to_convert # 0
        /\ assets[i].max_to_convert >
               SumSeq([j \in 1..Len(assets) |-> assets[j].current_asset_balance])

\* lines 837-847: an asset asks for more than it holds
ExceedsBalance ==
    \E i \in 1..Len(assets) :
        assets[i].max_to_convert # 0
        /\ assets[i].max_to_convert > assets[i].current_asset_balance

\* years_to_convert after the cap of lines 862-868
ExtendedYears(total, cap) == RoundHalfEven(total, cap)

PrepareAssetsForConversion ==
    /\ pc = "constructed"
    /\ ~ExceedsBalance
    /\ LET total == SumSeq([i \in 1..Len(assets) |-> assets[i].max_to_convert])
           uncapped == total \div years_to_convert
           capped == max_annual_amount > 0 /\ uncapped > max_annual_amount
           annual == IF capped THEN max_annual_amount ELSE uncapped
           extended == IF capped THEN ExtendedYears(total, annual) ELSE years_to_convert
       IN  /\ annual_conversion' = annual
           /\ total_conversion' = total
           /\ years_to_convert' = IF extended > years_to_convert
                                  THEN extended ELSE years_to_convert
    /\ asset_conversion_map' = BuildConversionMap(1, EmptyDict)
    \* self.assets.append(roth_asset); every loop over self.assets passes over
    \* the entries flagged is_synthetic_roth or finds nothing to add for them
    /\ synthetic_roth_assets' = synthetic_roth_assets + 1
    /\ pc' = "baseline"
    /\ UNCHANGED <<tax_loader, params, roth_withdrawal_start_year, ledgers, year,
                   earliest_year_in_results, row_index, pre_retirement_results,
                   baseline_results, conversion_results, call, output, caller>>

\* raise ValueError("Conversion amount ... exceeds asset balance ...")
PrepareRaises ==
    /\ pc = "constructed"
    /\ ExceedsBalance
    /\ pc' = "raised"
    /\ UNCHANGED <<tax_loader, params, schedule, ledgers, year, earliest_year_in_results, row_index,
                   pre_retirement_results, baseline_results, conversion_results, call, output, caller>>

(***************************************************************************)
(* process(): the baseline timeline                                        *)
(***************************************************************************)
needs_pre_retirement_years == conversion_start_year < calculate_retirement_year

\* baseline_scenario['start_year']
BaselineStartYear == Min(calculate_retirement_year, conversion_start_year)

\* A row of ScenarioProcessor.calculate(): the fields process() reads from it.
FeedRow(y) ==
    LET retired == y >= calculate_retirement_year
        ss_income == IF retired THEN scenario.ss_income ELSE 0
        taxable_ss == ss_income \div 2
        taxable_income == Max(0, ss_income + taxable_ss - get_standard_deduction)
        federal_tax == calculate_federal_tax_and_bracket(taxable_income).tax
    IN  YearRow("feed", y, PrimaryAge(y), ss_income, ss_income, taxable_ss, 0,
                ss_income + taxable_ss, taxable_income, federal_tax, 0, 0,
                calculate_state_tax(ss_income + taxable_ss, taxable_ss),
                MedicareFields(EmptyDict, y, PrimaryAge(y), ss_income + taxable_ss),
                NoProjection)

\* ScenarioProcessor.calculate(): consecutive years from first_year on
FeedRows(first_year) == [i \in 1..(LastYear - first_year + 1) |-> FeedRow(first_year + i - 1)]

\* the first baseline row at or after position i with year >= retirement_year
RECURSIVE NextRetirementRow(_, _)
NextRetirementRow(rows, i) ==
    IF i > Len(rows) THEN i
    ELSE IF rows[i].year >= calculate_retirement_year THEN i
    ELSE NextRetirementRow(rows, i + 1)

\* where process() continues once baseline_results is complete
StartConversion(rows) ==
    IF needs_pre_retirement_years
    THEN /\ pc' = "conversion_pre"
         /\ year' = conversion_start_year
         /\ row_index' = 0
    ELSE /\ pc' = IF NextRetirementRow(rows, 1) > Len(rows) THEN "finish" ELSE "conversion_ret"
         /\ year' = NoYear
         /\ row_index' = NextRetirementRow(rows, 1)

\* line 1576: _calculate_retirement_year() parses the client's birthdate
\* outside any try block (line 85); the ValueError leaves process()
RetirementYearRaises ==
    /\ pc = "baseline"
    /\ client.birth_year = Unparseable
    /\ pc' = "raised"
    /\ UNCHANGED <<tax_loader, params, schedule, ledgers, year, earliest_year_in_results, row_index,
                   pre_retirement_results, baseline_results, conversion_results, call, output, caller>>

\* the years ScenarioProcessor.calculate() may start from: start_year, the
\* current year when start_year is past, or the retirement year
FeedFirstYears ==
    {BaselineStartYear, Max(BaselineStartYear, CurrentYear), calculate_retirement_year}

\* lines 1651-1668: baseline_processor.calculate() returns its rows
BaselineCalculate ==
    /\ pc = "baseline"
    /\ client.birth_year # Unparseable
    /\ \E first_year \in FeedFirstYears :
          /\ first_year <= LastYear
          /\ baseline_results' = FeedRows(first_year)
          /\ earliest_year_in_results' = first_year
          /\ IF needs_pre_retirement_years /\ first_year > conversion_start_year
             THEN /\ pc' = "baseline_pre"
                  /\ year' = conversion_start_year
                  /\ row_index' = 0
             ELSE StartConversion(FeedRows(first_year))
    /\ UNCHANGED <<tax_loader, params, schedule, ledgers, pre_retirement_results, conversion_results, call, output, caller>>

\* lines 1763-1768: the baseline computation raises, baseline_results = []
BaselineFails ==
    /\ pc = "baseline"
    /\ client.birth_year # Unparseable
    /\ baseline_results' = << >>
    /\ StartConversion(<< >>)
    /\ UNCHANGED <<tax_loader, params, schedule, ledgers, earliest_year_in_results,
                   pre_retirement_results, conversion_results, call, output, caller>>

\* lines 1673-1761: one pre-retirement year added to the baseline by hand
BaselinePreRetirementYear ==
    /\ pc = "baseline_pre"
    /\ year < earliest_year_in_results
    /\ \E r \in {BaselinePreRetirementRow(year)} :
           /\ magi_history' = r.history
           /\ IF year + 1 >= earliest_year_in_results
              THEN /\ pre_retirement_results' = << >>
                   /\ baseline_results' = Append(pre_retirement_results, r.row) \o baseline_results
                   /\ StartConversion(Append(pre_retirement_results, r.row) \o baseline_results)
              ELSE /\ pre_retirement_results' = Append(pre_retirement_results, r.row)
                   /\ baseline_results' = baseline_results
                   /\ year' = year + 1
                   /\ pc' = pc
                   /\ row_index' = row_index
    /\ UNCHANGED <<tax_loader, params, schedule, roth_balance_by_year, asset_balances_by_year,
                   earliest_year_in_results, conversion_results, call, output, caller>>

(***************************************************************************)
(* process(): the conversion timeline                                      *)
(***************************************************************************)
\* lines 1782-1878
ConversionPreRetirementYear ==
    /\ pc = "conversion_pre"
    /\ year < calculate_retirement_year
    /\ \E r \in {ConversionPreRetirementRow(year)},
          next_row \in {NextRetirementRow(baseline_results, 1)} :
           /\ magi_history' = r.history
           /\ asset_balances_by_year' = r.projection.asset_ledger
           /\ roth_balance_by_year' = r.projection.roth_ledger
           /\ conversion_results' = Append(conversion_results, r.row)
           /\ IF year + 1 < calculate_retirement_year
              THEN /\ year' = year + 1
                   /\ pc' = pc
                   /\ row_index' = row_index
              ELSE /\ year' = NoYear
                   /\ row_index' = next_row
                   /\ pc' = IF next_row > Len(baseline_results)
                            THEN "finish" ELSE "conversion_ret"
    /\ UNCHANGED <<tax_loader, params, schedule, earliest_year_in_results, pre_retirement_results,
                   baseline_results, call, output, caller>>

\* lines 1887-2038
ConversionRetirementYear ==
    /\ pc = "conversion_ret"
    /\ row_index <= Len(baseline_results)
    /\ \E r \in {ConversionRetirementRow(baseline_results[row_index])},
          next_row \in {NextRetirementRow(baseline_results, row_index + 1)} :
           /\ magi_history' = r.history
           /\ asset_balances_by_year' = r.projection.asset_ledger
           /\ roth_balance_by_year' = r.projection.roth_ledger
           /\ conversion_results' = Append(conversion_results, r.row)
           /\ row_index' = next_row
           /\ pc' = IF next_row > Len(baseline_results) THEN "finish" ELSE pc
    /\ UNCHANGED <<tax_loader, params, schedule, year, earliest_year_in_results, pre_retirement_results,
                   baseline_results, call, output, caller>>

(***************************************************************************)
(* InheritanceTaxCalculator and TaxCSVLoader.calculate_estate_tax.         *)
(* year_data is the year dict as the list of its items in insertion order; *)
(* an item is [key, value, numeric].  Balances are whole units, the estate *)
(* tax and net_to_heirs are hundredths.                                    *)
(***************************************************************************)
EstateTopIncomeMax == 999999999     \* 'income_max' of the top estate bracket

\* the estate brackets served by the loader: an exemption, then 40 percent
EstateBracketRows ==
    << [income_min |-> 0, income_max |-> 5000, tax_rate |-> 0, base_tax |-> 0],
       [income_min |-> 5000, income_max |-> EstateTopIncomeMax, tax_rate |-> 40,
        base_tax |-> 0] >>

get_estate_tax_brackets(rows) ==
    SortRows(rows, [i \in 1..Len(rows) |-> rows[i].income_min])

RECURSIVE EstateTaxWalk(_, _, _, _)
EstateTaxWalk(brackets, i, total_estate_value, tax) ==
    IF i > Len(brackets) THEN tax
    ELSE IF total_estate_value <= brackets[i].income_min THEN tax
    ELSE LET taxable_amount == Min(total_estate_value - brackets[i].income_min,
                                   brackets[i].income_max - brackets[i].income_min)
             tax2 == brackets[i].base_tax * 100 + taxable_amount * brackets[i].tax_rate
         IN  IF total_estate_value <= brackets[i].income_max THEN tax2
             ELSE EstateTaxWalk(brackets, i + 1, total_estate_value, tax2)

calculate_estate_tax(total_estate_value, rows) ==
    EstateTaxWalk(get_estate_tax_brackets(rows), 1, total_estate_value, 0)

calculate_inheritance_tax(total_taxable_estate, rows) ==
    IF total_taxable_estate <= 0 THEN 0
    ELSE calculate_estate_tax(total_taxable_estate, rows)

\* key.endswith('_balance')
EndsWithBalance(key) ==
    key \in {"Qualified_balance", "qualified_balance", "QUALIFIED_BALANCE",
             "Non-Qualified_balance", "non_qualified_balance", "traditional_ira_balance",
             "Roth IRA_balance", "Roth_balance", "roth_balance", "roth_ira_balance",
             "inherited_traditional_spouse_balance", "inherited_roth_spouse_balance",
             "Fidelity Roth_balance",
             "0_balance", "1_balance", "2_balance", "3_balance", "4_balance"}

\* key.lower()
KeyLower(key) ==
    CASE key \in {"Qualified_balance", "QUALIFIED_BALANCE"} -> "qualified_balance"
      [] key = "Non-Qualified_balance" -> "non-qualified_balance"
      [] key = "Roth IRA_balance" -> "roth ira_balance"
      [] key = "Roth_balance" -> "roth_balance"
      [] key = "Fidelity Roth_balance" -> "fidelity roth_balance"
      [] OTHER -> key

\* lines 104-124: the investment type whose substring test the lowered key
\* passes first
InvestmentType(key_lower) ==
    CASE key_lower \in {"qualified_balance", "non-qualified_balance"} -> "Qualified"
      [] key_lower = "non_qualified_balance" -> "Non-Qualified"
      [] key_lower = "inherited_traditional_spouse_balance" -> "Inherited Traditional Spouse"
      [] key_lower \in {"roth_balance", "roth_ira_balance", "fidelity roth_balance"} -> "Roth"
      [] key_lower = "inherited_roth_spouse_balance" -> "Inherited Roth Spouse"
      [] OTHER -> "none"

TAXABLE_INVESTMENT_TYPES ==
    {"Qualified", "Non-Qualified", "Inherited Traditional Spouse",
     "Inherited Traditional Non-Spouse"}

NON_TAXABLE_INVESTMENT_TYPES == {"Roth", "Inherited Roth Spouse", "Inherited Roth Non-Spouse"}

\* sum(d.values(), Decimal('0'))
RECURSIVE SumValues(_, _)
SumValues(d, keys) ==
    IF keys = {} THEN 0
    ELSE LET k == CHOOSE x \in keys : TRUE
         IN  d[k] + SumValues(d, keys \ {k})

\* lines 78-124: for key, value in year_data.items()
RECURSIVE TaxableAssetsWalk(_, _, _, _, _)
TaxableAssetsWalk(year_data, i, taxable_assets, non_taxable_assets, processed_keys) ==
    IF i > Len(year_data)
    THEN [taxable |-> taxable_assets, non_taxable |-> non_taxable_assets]
    ELSE
      LET key_lower == KeyLower(year_data[i].key)
          balance == year_data[i].value
          type == InvestmentType(key_lower)
          skipped == \/ ~EndsWithBalance(year_data[i].key)
                     \/ ~year_data[i].numeric
                     \/ balance <= 0
                     \/ key_lower \in processed_keys
      IN  IF skipped
          THEN TaxableAssetsWalk(year_data, i + 1, taxable_assets, non_taxable_assets,
                                 processed_keys)
          ELSE TaxableAssetsWalk(
                   year_data, i + 1,
                   IF type \in TAXABLE_INVESTMENT_TYPES
                   THEN DictSet(taxable_assets, type, DictGet(taxable_assets, type, 0) + balance)
                   ELSE taxable_assets,
                   IF type \in NON_TAXABLE_INVESTMENT_TYPES
                   THEN DictSet(non_taxable_assets, type,
                                DictGet(non_taxable_assets, type, 0) + balance)
                   ELSE non_taxable_assets,
                   processed_keys \cup {key_lower})

get_taxable_assets(year_data) ==
    LET found == TaxableAssetsWalk(year_data, 1, EmptyDict, EmptyDict, {})
        total_taxable == SumValues(found.taxable, DOMAIN found.taxable)
        total_non_taxable == SumValues(found.non_taxable, DOMAIN found.non_taxable)
    IN  [taxable |-> found.taxable, non_taxable |-> found.non_taxable,
         total_taxable |-> total_taxable, total_non_taxable |-> total_non_taxable,
         total_estate |-> total_taxable + total_non_taxable]

generate_inheritance_report_TaxOnTotalEstate(year_data, rows) ==
    LET found == get_taxable_assets(year_data)
        estate_tax == calculate_inheritance_tax(found.total_estate, rows)
    IN  [estate_tax |-> estate_tax,
         total_taxable_estate |-> found.total_taxable,
         total_non_taxable_estate |-> found.total_non_taxable,
         total_estate_value |-> found.total_estate,
         net_to_heirs |-> found.total_estate * 100 - estate_tax,
         taxable_assets |-> found.taxable,
         non_taxable_assets |-> found.non_taxable]

generate_inheritance_report(year_data, rows) ==
    LET found == get_taxable_assets(year_data)
        estate_tax == calculate_inheritance_tax(found.total_taxable, rows)
    IN  [estate_tax |-> estate_tax,
         total_taxable_estate |-> found.total_taxable,
         total_non_taxable_estate |-> found.total_non_taxable,
         total_estate_value |-> found.total_estate,
         net_to_heirs |-> found.total_estate * 100 - estate_tax,
         taxable_assets |-> found.taxable,
         non_taxable_assets |-> found.non_taxable]

(***************************************************************************)
(* RothConversionProcessor._extract_metrics and _compare_metrics.          *)
(* A metric set is a dict from metric names to values; a value is a number *)
(* or a dict.  Rows do not carry net_income, so cumulative_net_income is   *)
(* not part of the modelled metric set.                                    *)
(***************************************************************************)
Num(n) == [kind |-> "num", value |-> n]
Struct(d) == [kind |-> "dict", value |-> d]

\* d[key] = value on the items of a dict: an existing key keeps its place
ItemsPut(items, key, value) ==
    IF \E j \in 1..Len(items) : items[j].key = key
    THEN [j \in 1..Len(items) |->
             IF items[j].key = key THEN [key |-> key, value |-> value, numeric |-> TRUE]
             ELSE items[j]]
    ELSE Append(items, [key |-> key, value |-> value, numeric |-> TRUE])

\* lines 753-763: the balance fields one asset writes into balances
RECURSIVE AssetBalanceItems(_, _, _)
AssetBalanceItems(per_asset, i, items) ==
    IF i > Len(per_asset) THEN items
    ELSE LET by_type == ItemsPut(items, assets[i].income_type \o "_balance",
                                 per_asset[i].balance)
             by_id == IF assets[i].id # NoneId
                      THEN ItemsPut(by_type, IdStr(assets[i].id) \o "_balance",
                                    per_asset[i].balance)
                      ELSE by_type
         IN  AssetBalanceItems(per_asset, i + 1, by_id)

\* the "*_balance" items of a year row: lines 753-763 and 799-800
BalanceItems(row) ==
    LET items == AssetBalanceItems(row.assets, 1, << >>)
    IN  IF row.roth_ira_balance > 0
        THEN ItemsPut(items, "roth_ira_balance", row.roth_ira_balance)
        ELSE items

extract_metrics_IrmaaInMedicare(results) ==
    LET n == Len(results)
        lifetime_tax == SumSeq([k \in 1..n |-> results[k].federal_tax + results[k].state_tax])
        lifetime_medicare == SumSeq([k \in 1..n |-> results[k].total_medicare])
        total_irmaa == SumSeq([k \in 1..n |-> results[k].irmaa_surcharge])
        total_rmds == SumSeq([k \in 1..n |-> results[k].rmd_total])
        final_roth == IF n = 0 THEN 0 ELSE results[n].roth_ira_balance
        inheritance_report ==
            generate_inheritance_report(IF n = 0 THEN << >> ELSE BalanceItems(results[n]),
                                        EstateBracketRows)
        inheritance_tax == IF n = 0 THEN 0 ELSE inheritance_report.estate_tax
        metrics_without_breakdown ==
            [lifetime_tax |-> Num(lifetime_tax),
             lifetime_medicare |-> Num(lifetime_medicare),
             total_irmaa |-> Num(total_irmaa),
             total_rmds |-> Num(total_rmds),
             final_roth |-> Num(final_roth),
             inheritance_tax |-> Num(inheritance_tax),
             total_expenses |->
                 Num(lifetime_tax + lifetime_medicare + total_irmaa + inheritance_tax)]
    IN  IF n = 0 THEN metrics_without_breakdown
        ELSE DictSet(metrics_without_breakdown, "inheritance_tax_breakdown",
                     Struct([taxable_assets |-> inheritance_report.taxable_assets,
                             non_taxable_assets |-> inheritance_report.non_taxable_assets,
                             total_taxable_estate |-> inheritance_report.total_taxable_estate,
                             total_non_taxable_estate |->
                                 inheritance_report.total_non_taxable_estate,
                             total_estate_value |-> inheritance_report.total_estate_value,
                             net_to_heirs |-> inheritance_report.net_to_heirs]))

extract_metrics(results) ==
    LET n == Len(results)
        lifetime_tax == SumSeq([k \in 1..n |-> results[k].federal_tax + results[k].state_tax])
        lifetime_medicare == SumSeq([k \in 1..n |-> results[k].medicare_base])
        total_irmaa == SumSeq([k \in 1..n |-> results[k].irmaa_surcharge])
        total_rmds == SumSeq([k \in 1..n |-> results[k].rmd_total])
        final_roth == IF n = 0 THEN 0 ELSE results[n].roth_ira_balance
        inheritance_report ==
            generate_inheritance_report(IF n = 0 THEN << >> ELSE BalanceItems(results[n]),
                                        EstateBracketRows)
        inheritance_tax == IF n = 0 THEN 0 ELSE inheritance_report.estate_tax
        metrics_without_breakdown ==
            [lifetime_tax |-> Num(lifetime_tax),
             lifetime_medicare |-> Num(lifetime_medicare),
             total_irmaa |-> Num(total_irmaa),
             total_rmds |-> Num(total_rmds),
             final_roth |-> Num(final_roth),
             inheritance_tax |-> Num(inheritance_tax),
             total_expenses |->
                 Num(lifetime_tax + lifetime_medicare + total_irmaa + inheritance_tax)]
    IN  IF n = 0 THEN metrics_without_breakdown
        ELSE DictSet(metrics_without_breakdown, "inheritance_tax_breakdown",
                     Struct([taxable_assets |-> inheritance_report.taxable_assets,
                             non_taxable_assets |-> inheritance_report.non_taxable_assets,
                             total_taxable_estate |-> inheritance_report.total_taxable_estate,
                             total_non_taxable_estate |->
                                 inheritance_report.total_non_taxable_estate,
                             total_estate_value |-> inheritance_report.total_estate_value,
                             net_to_heirs |-> inheritance_report.net_to_heirs]))

\* metrics.get(key, 0) of a numeric metric
NumericMetric(metric_set, key) == IF key \in DOMAIN metric_set THEN metric_set[key].value ELSE 0

\* lines 1453-1467: total_expenses is added when it is not present
WithTotalExpenses(metric_set) ==
    IF "total_expenses" \in DOMAIN metric_set THEN metric_set
    ELSE DictSet(metric_set, "total_expenses",
                 Num(NumericMetric(metric_set, "lifetime_tax")
                     + NumericMetric(metric_set, "lifetime_medicare")
                     + NumericMetric(metric_set, "total_irmaa")
                     + NumericMetric(metric_set, "inheritance_tax")))

\* lines 1470-1475: a key missing on one side is set to 0
WithKeys(metric_set, all_keys) ==
    [key \in all_keys |-> IF key \in DOMAIN metric_set THEN metric_set[key] ELSE Num(0)]

\* (difference / baseline_value) * 100 for a non-zero baseline_value, kept
\* to whole percents (rounded toward zero)
PercentOf(difference, baseline_value) ==
    LET a == IF difference < 0 THEN 0 - difference ELSE difference
        b == IF baseline_value < 0 THEN 0 - baseline_value ELSE baseline_value
        q == (a \div b) * 100 + ((a % b) * 100) \div b
    IN  IF (difference < 0) = (baseline_value < 0) THEN q ELSE 0 - q

\* lines 1477-1504 for one key
CompareKey_Undivided(baseline_value, conversion_value) ==
    IF baseline_value.kind = "dict" \/ conversion_value.kind = "dict"
    THEN [baseline |-> baseline_value, conversion |-> conversion_value]
    ELSE [baseline |-> baseline_value, conversion |-> conversion_value,
          difference |-> conversion_value.value - baseline_value.value,
          percent_change |-> conversion_value.value - baseline_value.value]

CompareKey(baseline_value, conversion_value) ==
    IF baseline_value.kind = "dict" \/ conversion_value.kind = "dict"
    THEN [baseline |-> baseline_value, conversion |-> conversion_value]
    ELSE LET difference == conversion_value.value - baseline_value.value
         IN  [baseline |-> baseline_value, conversion |-> conversion_value,
              difference |-> difference,
              percent_change |-> IF baseline_value.value # 0
                                 THEN PercentOf(difference, baseline_value.value)
                                 ELSE 0]

compare_metrics(baseline_metrics, conversion_metrics) ==
    LET with_baseline == WithTotalExpenses(baseline_metrics)
        with_conversion == WithTotalExpenses(conversion_metrics)
        all_keys == (DOMAIN with_baseline) \cup (DOMAIN with_conversion)
        b == WithKeys(with_baseline, all_keys)
        c == WithKeys(with_conversion, all_keys)
    IN  [baseline_metrics |-> b,
         conversion_metrics |-> c,
         comparison |-> [key \in all_keys |-> CompareKey(b[key], c[key])]]

\* _enhance_year_data_with_rmd_details
enhance_year_data_with_rmd_details(rows) ==
    [i \in 1..Len(rows) |->
        [rows[i] EXCEPT !.conversion_amount =
            IF rows[i].roth_conversion > 0 THEN rows[i].roth_conversion ELSE 0]]

\* _calculate_conversion_tax_breakdown: rows built by process() already hold
\* regular_income_tax and conversion_tax, which take precedence
calculate_conversion_tax_breakdown(rows) == rows

\* lines 2042-2117
Finish ==
    /\ pc = "finish"
    /\ \E enhanced_baseline \in {enhance_year_data_with_rmd_details(baseline_results)},
          enhanced_conversion \in {calculate_conversion_tax_breakdown(
                                       enhance_year_data_with_rmd_details(conversion_results))} :
          /\ baseline_results' = enhanced_baseline
          /\ conversion_results' = enhanced_conversion
          /\ \E compared \in {compare_metrics(extract_metrics(enhanced_baseline),
                                               extract_metrics(enhanced_conversion))} :
                metrics' = [baseline |-> compared.baseline_metrics,
                            conversion |-> compared.conversion_metrics,
                            comparison |-> compared.comparison]
    /\ pc' = "done"
    /\ UNCHANGED <<tax_loader, params, schedule, ledgers, year, earliest_year_in_results, row_index,
                   pre_retirement_results, call, caller>>

Next ==
    \/ Construct
    \/ ConstructRaises
    \/ PrepareAssetsForConversion
    \/ PrepareRaises
    \/ RetirementYearRaises
    \/ BaselineCalculate
    \/ BaselineFails
    \/ BaselinePreRetirementYear
    \/ ConversionPreRetirementYear
    \/ ConversionRetirementYear
    \/ Finish

Spec == Init /\ [][Next]_vars

(***************************************************************************)
(* Properties of the projection engine (Spec).                             *)
(***************************************************************************)
ConversionRows == {conversion_results[k] : k \in 1..Len(conversion_results)}

AssetIndexes == 1..Len(assets)

\* the asset's scheduled annual amount: max_to_convert / years_to_convert
ScheduledAnnual(asset) == asset.max_to_convert \div years_to_convert

\* C1: for an asset with an id and a year after the current year whose
\* previous ending balance is in the ledger, the persisted ending balance is
\* (previous ending balance - conversion) x (1 + growth) - RMD of the year:
\* the RMD is subtracted once.
C1_RmdSubtractedOnce ==
    \A r \in ConversionRows : \A i \in AssetIndexes :
        (r.year > CurrentYear /\ assets[i].id # NoneId /\ r.assets[i].from_ledger)
        => asset_balances_by_year[r.year][assets[i].id] =
               Grow(asset_balances_by_year[r.year - 1][assets[i].id] - r.assets[i].conv,
                    assets[i].rate_of_return)
               - r.assets[i].rmd

\* C2: for an RMD-eligible asset whose owner has reached the start age, the
\* RMD reported for year Y is the ending balance of Y-1 divided by the
\* life-expectancy factor of the owner's age in Y, and rmd_total is the sum
\* of the reported RMDs.
C2_RmdFromPriorYearEnd ==
    \A r \in ConversionRows :
        /\ \A i \in AssetIndexes :
              LET age == r.year - client.birth_year
              IN  (/\ requires_rmd(assets[i])
                   /\ r.assets[i].from_ledger
                   /\ age >= get_rmd_start_age(client.birth_year)
                   /\ RmdTableHas(age)
                   /\ r.assets[i].start >= 0)
                  => r.assets[i].rmd =
                        (asset_balances_by_year[r.year - 1][assets[i].id] * 10)
                            \div LifeExpectancyFactor10(age)
        /\ r.rmd_total = SumSeq([i \in AssetIndexes |-> r.assets[i].rmd])

\* C3: in every simulated year inside the conversion window, every
\* RMD-requiring asset with a scheduled amount first gives up
\* min(scheduled annual amount, balance), the Roth ledger is credited with
\* exactly the amounts given up, and growth applies to the reduced balance;
\* also in the first simulated year, wherever it lies relative to today.
C3_ConvertThenGrow ==
    \A r \in ConversionRows :
        InConversionWindow(r.year) =>
            /\ \A i \in AssetIndexes :
                  (/\ requires_rmd(assets[i])
                   /\ assets[i].max_to_convert > 0
                   /\ r.assets[i].pre >= 0)
                  => /\ r.assets[i].conv = Min(ScheduledAnnual(assets[i]), r.assets[i].pre)
                     /\ r.assets[i].grown =
                            Grow(r.assets[i].pre - r.assets[i].conv, assets[i].rate_of_return)
            /\ r.roth.contributed = SumSeq([i \in AssetIndexes |-> r.assets[i].conv])

\* C4: in the conversion timeline every asset starts each simulated year
\* after the first from the ending balance of the previous simulated year;
\* today's current_asset_balance is the start of the first simulated year
\* only.
C4_BalancesNeverReset ==
    \A k \in 2..Len(conversion_results) : \A i \in AssetIndexes :
        conversion_results[k].assets[i].start = conversion_results[k - 1].assets[i].balance

\* C5: the Roth ledger does not grow in a year in which it receives a
\* contribution, and grows by (1 + roth_growth_rate) in every other year in
\* which the balance carried in is positive, a window year without a
\* contribution included.
C5_RothGrowsUnlessContributed ==
    \A r \in ConversionRows :
        /\ r.roth.contributed > 0 => ~r.roth.grew
        /\ (r.roth.contributed = 0 /\ r.roth.carried > 0) => r.roth.grew

\* C6: once the schedule is prepared, annual_conversion x years_to_convert
\* equals total_conversion, the capped and extended schedule included.
C6_ScheduleConvertsTotal ==
    pc \in {"baseline", "baseline_pre", "conversion_pre", "conversion_ret", "finish", "done"}
    => annual_conversion * years_to_convert = total_conversion

\* the regular income a result row was taxed on
RowIncome(r) == r.gross_income + r.taxable_ss

FederalTaxAfterDeduction(income) ==
    calculate_federal_tax_and_bracket(
        Max(0, income - get_standard_deduction)).tax

\* C7: each row's conversion_tax is the federal tax on (income + conversion)
\* less the federal tax on the income alone, both after the standard
\* deduction and both from that row's own income; a row without a
\* conversion has conversion_tax 0 and regular_income_tax = federal_tax.
C7_MarginalConversionTax ==
    \A r \in ConversionRows :
        /\ r.roth_conversion > 0 =>
              r.conversion_tax = FederalTaxAfterDeduction(RowIncome(r) + r.roth_conversion)
                                 - FederalTaxAfterDeduction(RowIncome(r))
        /\ r.roth_conversion = 0 =>
              /\ r.conversion_tax = 0
              /\ r.regular_income_tax = r.federal_tax

C7_Witness ==
    \E r1, r2 \in ConversionRows :
        /\ r1.roth_conversion > 0 /\ r2.roth_conversion > 0
        /\ RowIncome(r1) # RowIncome(r2)
        /\ r1.conversion_tax # r2.conversion_tax
        /\ r1.conversion_tax > 0

\* the row a step adds to the conversion timeline
AppendedRow == conversion_results'[Len(conversion_results')]

\* C8: when the primary owner is 65 or older in year Y, the IRMAA tier is
\* selected by the MAGI recorded for Y-2 if one has been recorded, and by
\* the year's own MAGI otherwise.
C8_TwoYearLookback ==
    [][Len(conversion_results') = Len(conversion_results) + 1 =>
         (AppendedRow.primary_age >= MedicareAge =>
             /\ AppendedRow.on_medicare
             /\ AppendedRow.irmaa_income =
                    IF (AppendedRow.year - 2) \in DOMAIN magi_history
                    THEN magi_history[AppendedRow.year - 2]
                    ELSE AppendedRow.magi)]_vars

C8_Witness ==
    \E r1, r2 \in ConversionRows :
        /\ r2.year = r1.year + 2
        /\ r2.primary_age >= MedicareAge
        /\ r1.magi # r2.magi
        /\ r2.irmaa_income = r1.magi

(***************************************************************************)
(* The loader's pure functions, called on their own.  The processor's      *)
(* variables stay at the values of a loader that no processor uses.        *)
(***************************************************************************)
\* a processor that is not running: everything but client and spouse
IdleProcessor ==
    /\ scenario = [retirement_age |-> 0, tax_filing_status |-> "single",
                   primary_state |-> "", ss_income |-> 0]
    /\ assets = << >>
    /\ conversion_start_year = NoYear
    /\ years_to_convert = 0
    /\ pre_retirement_income = 0
    /\ roth_growth_rate = 0
    /\ max_annual_amount = 0
    /\ roth_withdrawal_amount = 0
    /\ roth_withdrawal_start_year = NoYear
    /\ annual_conversion = 0
    /\ total_conversion = 0
    /\ asset_conversion_map = EmptyDict
    /\ synthetic_roth_assets = 0
    /\ magi_history = EmptyDict
    /\ roth_balance_by_year = EmptyDict
    /\ asset_balances_by_year = EmptyDict
    /\ conversion_params = EmptyDict
    /\ first_result = NoResult
    /\ pc = "loader"
    /\ year = NoYear
    /\ earliest_year_in_results = NoYear
    /\ row_index = 0
    /\ pre_retirement_results = << >>
    /\ baseline_results = << >>
    /\ conversion_results = << >>
    /\ metrics = EmptyDict

NoClient ==
    /\ client = [birth_year |-> 0]
    /\ spouse = [present |-> FALSE, birth_year |-> 0]
    /\ IdleProcessor

NoProcessor == NoClient /\ IdleLoader

Reverse(seq) == [i \in 1..Len(seq) |-> seq[Len(seq) + 1 - i]]

\* federal bracket tables: ascending from 0, contiguous, the top bracket
\* closed by the sentinel; the file may list the rows in either order
BracketCuts == {100, 200, 300}
BracketRates == {10, 20, 30}
TaxableIncomes == {0 - 100, 0, 50, 100, 150, 200, 250, 300, 400}

BracketTable(cuts, rates) ==
    [i \in 1..Len(rates) |->
        [min_income |-> IF i = 1 THEN 0 ELSE cuts[i - 1],
         max_income |-> IF i = Len(rates) THEN TopBracketSentinel ELSE cuts[i],
         tax_rate   |-> rates[i]]]

AscendingCuts(n) ==
    {cuts \in [1..n -> BracketCuts] : \A i \in 1..(n - 1) : cuts[i] < cuts[i + 1]}

BracketTables ==
    UNION {{BracketTable(cuts, rates) :
               cuts \in AscendingCuts(n - 1), rates \in [1..n -> BracketRates]} :
           n \in 1..MaxBrackets}

InitTax ==
    /\ NoProcessor
    /\ fn = "none"
    /\ \E table \in BracketTables, taxable_income \in TaxableIncomes, listed \in BOOLEAN :
          args = [rows |-> IF listed THEN table ELSE Reverse(table),
                  taxable_income |-> taxable_income]
    /\ result = << >>

CalculateFederalTax ==
    /\ fn = "none"
    /\ fn' = "calculate_federal_tax"
    /\ result' = calculate_federal_tax(args.taxable_income, args.rows)
    /\ UNCHANGED <<tax_loader, params, schedule, ledgers, locals, output, caller, args>>

AuditorCalculateFederalTax ==
    /\ fn = "none"
    /\ fn' = "_calculate_federal_tax"
    /\ result' = [tax |-> auditor_calculate_federal_tax(
                              args.taxable_income,
                              AuditorBrackets(get_federal_tax_brackets(args.rows)))]
    /\ UNCHANGED <<tax_loader, params, schedule, ledgers, locals, output, caller, args>>

NextTax == CalculateFederalTax \/ AuditorCalculateFederalTax

SpecTax == InitTax /\ [][NextTax]_vars

\* the part of the income lying inside a bracket
PortionInBracket(taxable_income, bracket) ==
    LET upper == IF bracket.max_income >= TopBracketSentinel
                 THEN Max(taxable_income, bracket.min_income)
                 ELSE bracket.max_income
    IN  Max(0, Min(taxable_income, upper) - bracket.min_income)

ProgressiveTax(taxable_income, brackets) ==
    SumSeq([i \in 1..Len(brackets) |->
               brackets[i].tax_rate * PortionInBracket(taxable_income, brackets[i])])

\* C10: on an ascending contiguous table with an unbounded top bracket,
\* calculate_federal_tax returns the sum over the brackets of rate x (portion
\* of the income inside the bracket), which is also the auditor's
\* _calculate_federal_tax; an income of zero or less is taxed 0.
C10_ProgressiveFederalTax ==
    fn = "calculate_federal_tax" =>
        LET brackets == get_federal_tax_brackets(args.rows)
        IN  /\ result.tax = ProgressiveTax(args.taxable_income, brackets)
            /\ result.tax = auditor_calculate_federal_tax(args.taxable_income,
                                                          AuditorBrackets(brackets))
            /\ args.taxable_income <= 0 => result.tax = 0

C10_Witness ==
    /\ fn = "calculate_federal_tax"
    /\ Len(args.rows) = 3
    /\ args.taxable_income > get_federal_tax_brackets(args.rows)[3].min_income
    /\ result.tax > 0
    /\ result.bracket = get_federal_tax_brackets(args.rows)[3].tax_rate

\* IRMAA tables: distinct thresholds, listed in either order
IrmaaThresholdValues == {0, 10000, 20000, 30000}
IrmaaSurcharges == {[part_b |-> 0, part_d |-> 0],
                    [part_b |-> 7400, part_d |-> 1370],
                    [part_b |-> 18500, part_d |-> 3530]}
Magis == {0, 1, 10000, 10001, 10100, 10101, 10201, 10202,
          20000, 20001, 20200, 20201, 20402, 20403, 30001, 40000}

IrmaaRow(threshold, surcharge) ==
    [magi_threshold |-> threshold,
     part_b_surcharge |-> surcharge.part_b,
     part_d_surcharge |-> surcharge.part_d]

IrmaaTables ==
    UNION {{[i \in 1..n |-> IrmaaRow(thresholds[i], surcharges[i])] :
               thresholds \in {t \in [1..n -> IrmaaThresholdValues] :
                                  \A i \in 1..(n - 1) : t[i] < t[i + 1]},
               surcharges \in [1..n -> IrmaaSurcharges]} :
           n \in 1..MaxTiers}

InitIrmaa ==
    /\ NoProcessor
    /\ fn = "none"
    /\ \E table \in IrmaaTables, magi \in Magis, listed \in BOOLEAN,
          target_year \in TaxYear..(TaxYear + MaxInflateYears) :
          args = [rows |-> IF listed THEN table ELSE Reverse(table),
                  magi |-> magi, target_year |-> target_year]
    /\ result = << >>

CalculateIrmaa ==
    /\ fn = "none"
    /\ fn' = "calculate_irmaa"
    /\ result' = calculate_irmaa(args.magi, args.rows)
    /\ UNCHANGED <<tax_loader, params, schedule, ledgers, locals, output, caller, args>>

CalculateIrmaaWithInflation ==
    /\ fn = "none"
    /\ fn' = "calculate_irmaa_with_inflation"
    /\ result' = calculate_irmaa_with_inflation(args.magi, args.rows, args.target_year, TaxYear)
    /\ UNCHANGED <<tax_loader, params, schedule, ledgers, locals, output, caller, args>>

NextIrmaa == CalculateIrmaa \/ CalculateIrmaaWithInflation

SpecIrmaa == InitIrmaa /\ [][NextIrmaa]_vars

\* the thresholds the finished call searched
SearchedThresholds ==
    IF fn = "calculate_irmaa_with_inflation"
    THEN get_inflated_irmaa_thresholds(args.rows, args.target_year, TaxYear)
    ELSE get_irmaa_thresholds(args.rows)

ExceededTiers ==
    {i \in 1..Len(SearchedThresholds) : args.magi > SearchedThresholds[i].magi_threshold}

rmd_calculator_get_rmd_start_age_From72(birth_year) == 72

rmd_calculator_get_rmd_start_age(birth_year) ==
    IF birth_year <= 1950 THEN 72
    ELSE IF birth_year <= 1951 THEN 73
    ELSE IF birth_year <= 1959 THEN 73
    ELSE 75

\* RothRMDCalculator.requires_rmd
rmd_calculator_requires_rmd(asset) ==
    \/ asset.income_type \in {"Qualified", "Traditional IRA", "401(k)", "SEP IRA", "403(b)",
                              "Inherited Traditional", "Inherited Traditional Spouse",
                              "Inherited Traditional Non-Spouse"}
    \/ Lower(asset.income_type) \in {"qualified", "401k", "traditional_ira", "sep_ira", "403b",
                                     "inherited traditional", "inherited traditional spouse",
                                     "inherited traditional non-spouse"}

\* RothRMDCalculator.calculate_rmd_for_asset
rmd_calculator_calculate_rmd_for_asset(asset, previous_year_balance, owner_age) ==
    LET birth_year == IF asset.owned_by = "primary" THEN client.birth_year
                      ELSE IF spouse.present THEN spouse.birth_year ELSE 0
    IN  IF ~rmd_calculator_requires_rmd(asset) THEN 0
        ELSE IF birth_year = 0 THEN 0
        ELSE IF owner_age < rmd_calculator_get_rmd_start_age(birth_year) THEN 0
        ELSE IF ~RmdTableHas(owner_age) THEN 0
        ELSE (previous_year_balance * 10) \div LifeExpectancyFactor10(owner_age)

RmdBirthYears == {0, 1950, 1951, 1959, 1960}
RmdOwners == {"primary", "spouse"}
RmdBalances == {0, 1000, 27400}
RmdOwnerAges == {71, 72, 73, 74, 75, 120, 121}

InitRmd ==
    /\ IdleProcessor
    /\ IdleLoader
    /\ client \in [birth_year : RmdBirthYears]
    /\ spouse \in [present : BOOLEAN, birth_year : {0, 1955, 1960}]
    /\ spouse.present = FALSE => spouse.birth_year = 0
    /\ fn = "none"
    /\ \E income_type \in IncomeTypes, owned_by \in RmdOwners,
          previous_year_balance \in RmdBalances, owner_age \in RmdOwnerAges :
          args = [asset |-> Asset(1, income_type, owned_by, 0, 0, 0, 0),
                  previous_year_balance |-> previous_year_balance,
                  owner_age |-> owner_age]
    /\ result = << >>

CalculateRmdForAsset ==
    /\ fn = "none"
    /\ fn' = "calculate_rmd_for_asset"
    /\ result' = [rmd |-> rmd_calculator_calculate_rmd_for_asset(
                              args.asset, args.previous_year_balance, args.owner_age)]
    /\ UNCHANGED <<tax_loader, params, schedule, ledgers, locals, output, caller, args>>

ProcessorCalculateRmdForAsset ==
    /\ fn = "none"
    /\ fn' = "_calculate_rmd_for_asset"
    /\ result' = [rmd |-> calculate_rmd_for_asset(
                              args.asset, args.previous_year_balance, args.owner_age)]
    /\ UNCHANGED <<tax_loader, params, schedule, ledgers, locals, output, caller, args>>

NextRmd == CalculateRmdForAsset \/ ProcessorCalculateRmdForAsset

SpecRmd == InitRmd /\ [][NextRmd]_vars

\* the category of an asset requires RMD: qualified, traditional and
\* inherited-traditional accounts
RmdCategory(income_type) == income_type \in {"Qualified", "traditional_ira"}

\* the birth year of the asset's owner, 0 when the birthdate is unknown
OwnerBirthYear(asset) ==
    IF asset.owned_by = "primary" THEN client.birth_year
    ELSE IF spouse.present THEN spouse.birth_year ELSE 0

StartAgeOfBirthYear(birth_year) ==
    CASE birth_year <= 1950 -> 72
      [] birth_year >= 1951 /\ birth_year <= 1959 -> 73
      [] birth_year >= 1960 -> 75

ProjectedRows ==
    ConversionRows
      \cup {baseline_results[k] : k \in 1..Len(baseline_results)}
      \cup {pre_retirement_results[k] : k \in 1..Len(pre_retirement_results)}

\* the owner of the asset has reached the start age of the owner's birth
\* year in year y
OwnerReachedStartAge(asset, y) ==
    /\ OwnerBirthYear(asset) # 0
    /\ y - OwnerBirthYear(asset) >= StartAgeOfBirthYear(OwnerBirthYear(asset))

\* C12: a non-zero RMD is recorded for an asset in a year only if the
\* asset's category requires RMD and the asset's owner (the spouse for a
\* spouse-owned asset) has reached the start age of the owner's birth year
\* in that year; for a spouse-owned asset nothing is recorded or subtracted
\* while the spouse is younger than the spouse's start age.
C12_RmdOnlyAtOwnerStartAge ==
    \A r \in ProjectedRows : \A i \in 1..Len(r.assets) :
        /\ r.assets[i].rmd > 0 =>
              /\ RmdCategory(assets[i].income_type)
              /\ OwnerReachedStartAge(assets[i], r.year)
        /\ (assets[i].owned_by = "spouse" /\ ~OwnerReachedStartAge(assets[i], r.year)) =>
              /\ r.assets[i].rmd = 0
              /\ r.assets[i].loop_rmd = 0

\* the categories of the inheritance report
TaxableCategory(income_type) == income_type \in {"Qualified", "Non-Qualified"}
RothCategory(income_type) == income_type \in {"Roth IRA"}

\* the part of a final balance that is left to heirs
Positive(balance) == IF balance > 0 THEN balance ELSE 0

\* the last record of the conversion timeline and its inheritance report
FinalConversionRow == conversion_results[Len(conversion_results)]
ConversionBreakdown == metrics.conversion["inheritance_tax_breakdown"].value

\* C13: for the final record of the conversion timeline, total_taxable_estate
\* is the sum of the final ending balances of all assets of the taxable
\* categories and total_non_taxable_estate is the sum of all Roth balances
\* (Roth assets and the conversion Roth ledger), each asset counted once,
\* also when several assets share a category.
C13_EstateCountsEveryAsset ==
    (pc = "done" /\ conversion_results # << >>) =>
        /\ ConversionBreakdown.total_taxable_estate =
               SumSeq([i \in AssetIndexes |->
                          IF TaxableCategory(assets[i].income_type)
                          THEN Positive(FinalConversionRow.assets[i].balance) ELSE 0])
        /\ ConversionBreakdown.total_non_taxable_estate =
               SumSeq([i \in AssetIndexes |->
                          IF RothCategory(assets[i].income_type)
                          THEN Positive(FinalConversionRow.assets[i].balance) ELSE 0])
               + FinalConversionRow.roth_ira_balance

(***************************************************************************)
(* InheritanceTaxCalculator called on its own on a final year record, and  *)
(* TaxCSVLoader.calculate_estate_tax (SpecEstate).                         *)
(***************************************************************************)
\* keys of a final record: balances by income type ("Qualified", "Roth"),
\* by asset id, by income_name ("Fidelity Roth"), lower-case balance keys
\* and a field that is no balance
YearDataKeys ==
    {"Qualified_balance", "qualified_balance", "non_qualified_balance",
     "Roth_balance", "Fidelity Roth_balance", "roth_ira_balance", "1_balance", "federal_tax"}

YearDataValues == {0, 3000, 7000}

\* the items a key can hold; "1_balance" may hold a value that is no number
YearDataItems ==
    {[key |-> key, value |-> value, numeric |-> TRUE] :
         key \in YearDataKeys, value \in YearDataValues}
      \cup {[key |-> "1_balance", value |-> 0, numeric |-> FALSE]}

\* year dicts of at most MaxFields items: no key twice
YearDicts ==
    UNION {{d \in [1..n -> YearDataItems] :
               \A i, j \in 1..n : i # j => d[i].key # d[j].key} :
           n \in 0..MaxFields}

\* estate bracket tables: contiguous from 0, the top bracket open-ended
EstateTables ==
    { EstateBracketRows,
      << [income_min |-> 0, income_max |-> 4000, tax_rate |-> 10, base_tax |-> 0],
         [income_min |-> 4000, income_max |-> 8000, tax_rate |-> 20, base_tax |-> 400],
         [income_min |-> 8000, income_max |-> EstateTopIncomeMax, tax_rate |-> 40,
          base_tax |-> 1200] >>,
      << [income_min |-> 8000, income_max |-> EstateTopIncomeMax, tax_rate |-> 40,
          base_tax |-> 1200],
         [income_min |-> 4000, income_max |-> 8000, tax_rate |-> 20, base_tax |-> 400],
         [income_min |-> 0, income_max |-> 4000, tax_rate |-> 10, base_tax |-> 0] >> }

InitEstate ==
    /\ NoProcessor
    /\ fn = "none"
    /\ \E year_data \in YearDicts, rows \in EstateTables :
          args = [year_data |-> year_data, rows |-> rows]
    /\ result = << >>

GetTaxableAssets ==
    /\ fn = "none"
    /\ fn' = "get_taxable_assets"
    /\ result' = get_taxable_assets(args.year_data)
    /\ UNCHANGED <<tax_loader, params, schedule, ledgers, locals, output, caller, args>>

GenerateInheritanceReport ==
    /\ fn = "none"
    /\ fn' = "generate_inheritance_report"
    /\ result' = generate_inheritance_report(args.year_data, args.rows)
    /\ UNCHANGED <<tax_loader, params, schedule, ledgers, locals, output, caller, args>>

NextEstate == GetTaxableAssets \/ GenerateInheritanceReport

SpecEstate == InitEstate /\ [][NextEstate]_vars

\* the positive numeric balance fields of year_data that refer to a category
FieldsOfCategory(year_data, type) ==
    {i \in 1..Len(year_data) :
        /\ EndsWithBalance(year_data[i].key)
        /\ year_data[i].numeric
        /\ year_data[i].value > 0
        /\ InvestmentType(KeyLower(year_data[i].key)) = type}

\* what a category contributes to its bucket
BucketAmount(type) ==
    IF type \in TAXABLE_INVESTMENT_TYPES THEN DictGet(result.taxable, type, 0)
    ELSE DictGet(result.non_taxable, type, 0)

\* two field names of one balance: the keys differ only in letter case, or
\* they are the income-type key and the income_name key that one Roth asset
\* named "Fidelity Roth" writes
SameBalanceNames(key1, key2) ==
    \/ KeyLower(key1) = KeyLower(key2)
    \/ {key1, key2} \subseteq {"Roth_balance", "Fidelity Roth_balance"}

\* C14: when the balance fields of one category in the final record are all
\* names of one balance (keys differing only in letter case, or one balance
\* stored under more than one field name), the balance is added to the
\* category's bucket once.
C14_DuplicateFieldsCountedOnce ==
    fn = "get_taxable_assets" =>
        \A type \in TAXABLE_INVESTMENT_TYPES \cup NON_TAXABLE_INVESTMENT_TYPES :
            \A i \in FieldsOfCategory(args.year_data, type) :
                (\A j \in FieldsOfCategory(args.year_data, type) :
                    /\ SameBalanceNames(args.year_data[i].key, args.year_data[j].key)
                    /\ args.year_data[j].value = args.year_data[i].value)
                => BucketAmount(type) = args.year_data[i].value

\* year_data without the fields of the non-taxable categories
TaxableFieldsOnly(year_data) ==
    SelectSeq(year_data,
              LAMBDA item : InvestmentType(KeyLower(item.key)) \notin NON_TAXABLE_INVESTMENT_TYPES)

\* the estate brackets that contain an amount
ContainingBrackets(amount, brackets) ==
    {i \in 1..Len(brackets) :
        brackets[i].income_min < amount /\ amount <= brackets[i].income_max}

\* C15: generate_inheritance_report computes estate_tax from the taxable
\* total only, as base_tax + rate x (taxable_total - bracket_min) of the
\* bracket that contains taxable_total (0 when taxable_total <= 0), so the
\* non-taxable balances do not change it, and
\* net_to_heirs = total_estate_value - estate_tax.
C15_EstateTaxOnTaxableOnly ==
    fn = "generate_inheritance_report" =>
        LET brackets == get_estate_tax_brackets(args.rows)
            taxable_total == result.total_taxable_estate
        IN  /\ taxable_total <= 0 => result.estate_tax = 0
            /\ taxable_total > 0 =>
                  \E i \in ContainingBrackets(taxable_total, brackets) :
                      result.estate_tax =
                          brackets[i].base_tax * 100
                          + brackets[i].tax_rate * (taxable_total - brackets[i].income_min)
            /\ result.estate_tax =
                   generate_inheritance_report(TaxableFieldsOnly(args.year_data),
                                               args.rows).estate_tax
            /\ result.net_to_heirs = result.total_estate_value * 100 - result.estate_tax

C15_Witness ==
    /\ fn = "generate_inheritance_report"
    /\ Len(args.rows) = 3
    /\ result.total_non_taxable_estate > 0
    /\ result.total_taxable_estate > 8000
    /\ result.estate_tax > 0

(***************************************************************************)
(* Properties of the metrics process() returns (Spec).                     *)
(***************************************************************************)
\* the totals of a timeline, summed from its year records
TimelineTotals(rows) ==
    [tax |-> SumSeq([k \in 1..Len(rows) |-> rows[k].federal_tax + rows[k].state_tax]),
     rmds |-> SumSeq([k \in 1..Len(rows) |-> rows[k].rmd_total]),
     medicare |-> SumSeq([k \in 1..Len(rows) |-> rows[k].total_medicare])]

TotalsMatch(metric_set, rows) ==
    /\ metric_set["lifetime_tax"].value = TimelineTotals(rows).tax
    /\ metric_set["total_rmds"].value = TimelineTotals(rows).rmds
    /\ metric_set["total_expenses"].value =
           metric_set["lifetime_tax"].value + metric_set["lifetime_medicare"].value
           + metric_set["total_irmaa"].value + metric_set["inheritance_tax"].value

NumericMetricKeys == {"lifetime_tax", "inheritance_tax", "total_expenses"}
MetricAmounts == {0, 200, 500}

\* the breakdown of a timeline that has rows
Breakdowns ==
    {Struct([total_taxable_estate |-> t, total_non_taxable_estate |-> 0]) : t \in {0, 7000}}

\* metric sets as _extract_metrics builds them: numeric totals, and
\* inheritance_tax_breakdown present only for a timeline that has rows;
\* any of the totals may be absent
MetricSets ==
    UNION {{[key \in keys |-> IF key = "inheritance_tax_breakdown" THEN breakdown
                              ELSE Num(amounts[key])] :
               amounts \in [NumericMetricKeys -> MetricAmounts], breakdown \in Breakdowns} :
           keys \in SUBSET (NumericMetricKeys \cup {"inheritance_tax_breakdown"})}

InitCompare ==
    /\ NoProcessor
    /\ fn = "none"
    /\ \E baseline_metrics \in MetricSets, conversion_metrics \in MetricSets :
          args = [baseline_metrics |-> baseline_metrics,
                  conversion_metrics |-> conversion_metrics]
    /\ result = << >>

CompareMetrics ==
    /\ fn = "none"
    /\ fn' = "_compare_metrics"
    /\ result' = compare_metrics(args.baseline_metrics, args.conversion_metrics)
    /\ UNCHANGED <<tax_loader, params, schedule, ledgers, locals, output, caller, args>>

NextCompare == CompareMetrics

SpecCompare == InitCompare /\ [][NextCompare]_vars

\* the value a key counts with: its value, the sum of the four expense
\* totals for an absent total_expenses, and 0 for any other absent key
CountedValue(metric_set, key) ==
    IF key \in DOMAIN metric_set THEN metric_set[key]
    ELSE IF key = "total_expenses"
         THEN Num(SumSeq([k \in 1..4 |->
                             LET name == <<"lifetime_tax", "lifetime_medicare", "total_irmaa",
                                           "inheritance_tax">>[k]
                             IN  IF name \in DOMAIN metric_set THEN metric_set[name].value
                                 ELSE 0]))
         ELSE Num(0)

Abs(n) == IF n < 0 THEN 0 - n ELSE n

\* p is difference / baseline x 100, to the whole percent
IsPercentChange(p, difference, baseline_value) ==
    /\ Abs(p) * Abs(baseline_value) <= Abs(difference) * 100
    /\ Abs(difference) * 100 < (Abs(p) + 1) * Abs(baseline_value)
    /\ p # 0 => ((p < 0) <=> ((difference < 0) # (baseline_value < 0)))

\* C17: for every key of either metric set, a numeric key gets
\* difference = conversion - baseline and
\* percent_change = difference / baseline x 100, exactly 0 when the baseline
\* is 0 (a key absent on one side counts as 0); a key whose value is a dict
\* on either side is passed through as {baseline, conversion}.
C17_CompareMetrics ==
    fn = "_compare_metrics" =>
        /\ DOMAIN result.comparison =
               (DOMAIN args.baseline_metrics) \cup (DOMAIN args.conversion_metrics)
                   \cup {"total_expenses"}
        /\ \A key \in DOMAIN result.comparison :
              LET b == CountedValue(args.baseline_metrics, key)
                  c == CountedValue(args.conversion_metrics, key)
                  compared == result.comparison[key]
              IN  IF b.kind = "dict" \/ c.kind = "dict"
                  THEN compared = [baseline |-> b, conversion |-> c]
                  ELSE /\ compared.baseline = b
                       /\ compared.conversion = c
                       /\ compared.difference = c.value - b.value
                       /\ IF b.value = 0 THEN compared.percent_change = 0
                          ELSE IsPercentChange(compared.percent_change,
                                               c.value - b.value, b.value)

C17_Witness ==
    /\ fn = "_compare_metrics"
    /\ "inheritance_tax_breakdown" \notin DOMAIN args.baseline_metrics
    /\ "inheritance_tax_breakdown" \in DOMAIN args.conversion_metrics
    /\ "lifetime_tax" \in DOMAIN args.baseline_metrics
    /\ result.comparison["inheritance_tax_breakdown"].baseline = Num(0)
    /\ result.comparison["lifetime_tax"].baseline = Num(0)
    /\ result.comparison["lifetime_tax"].difference = 500
    /\ result.comparison["lifetime_tax"].percent_change = 0
    /\ "total_expenses" \notin DOMAIN args.conversion_metrics
    /\ result.comparison["total_expenses"].percent_change = 150

(***************************************************************************)
(* A second run on the same input (SpecRerun): the caller keeps what the   *)
(* first process() returned and either calls process() again on the same   *)
(* processor or builds a new processor from the same arguments.            *)
(***************************************************************************)
\* the keys of a year dict handed to the caller, without the intermediate
\* values of the projection that the rows of this module carry along
PublishedRow(row) ==
    [year |-> row.year, primary_age |-> row.primary_age,
     gross_income |-> row.gross_income, ss_income |-> row.ss_income,
     taxable_ss |-> row.taxable_ss, roth_conversion |-> row.roth_conversion,
     conversion_amount |-> row.conversion_amount, magi |-> row.magi,
     taxable_income |-> row.taxable_income, federal_tax |-> row.federal_tax,
     regular_income_tax |-> row.regular_income_tax, conversion_tax |-> row.conversion_tax,
     state_tax |-> row.state_tax, medicare_base |-> row.medicare_base,
     irmaa_surcharge |-> row.irmaa_surcharge, total_medicare |-> row.total_medicare,
     irmaa_income |-> row.irmaa_income, rmd_total |-> row.rmd_total,
     roth_ira_balance |-> row.roth_ira_balance, tax_free_income |-> row.tax_free_income,
     balances |-> [i \in 1..Len(row.assets) |-> row.assets[i].balance],
     rmds |-> [i \in 1..Len(row.assets) |-> row.assets[i].rmd]]

PublishedRows(rows) == [i \in 1..Len(rows) |-> PublishedRow(rows[i])]

\* the result dict of the process() call that has just returned, with the
\* first year of the baseline feed the run was given (NoYear: the feed failed)
ReturnedResult(run) ==
    [run |-> run,
     feed |-> earliest_year_in_results,
     baseline_results |-> PublishedRows(baseline_results),
     conversion_results |-> PublishedRows(conversion_results),
     metrics |-> metrics]

\* the locals of process() at its entry
EnterProcess ==
    /\ year' = NoYear
    /\ earliest_year_in_results' = NoYear
    /\ row_index' = 0
    /\ pre_retirement_results' = << >>
    /\ baseline_results' = << >>
    /\ conversion_results' = << >>
    /\ metrics' = EmptyDict

\* processor.process() a second time: line 1570 onwards, on the attributes
\* the first call left
ProcessAgain ==
    /\ pc = "done"
    /\ first_result = NoResult
    /\ first_result' = ReturnedResult("same processor")
    /\ EnterProcess
    /\ pc' = "constructed"
    /\ UNCHANGED <<tax_loader, params, schedule, ledgers, conversion_params, call>>

\* RothConversionProcessor(...) a second time with the same arguments:
\* __init__ sets every attribute anew; get_tax_loader() serves the same tables
NewProcessor ==
    /\ pc = "done"
    /\ first_result = NoResult
    /\ first_result' = ReturnedResult("new processor")
    /\ years_to_convert' = conversion_params.years_to_convert
    /\ roth_withdrawal_start_year' = conversion_params.roth_withdrawal_start_year
    /\ annual_conversion' = 0
    /\ total_conversion' = 0
    /\ asset_conversion_map' = EmptyDict
    /\ synthetic_roth_assets' = 0
    /\ magi_history' = EmptyDict
    /\ roth_balance_by_year' = EmptyDict
    /\ asset_balances_by_year' = EmptyDict
    /\ EnterProcess
    /\ pc' = "new"
    /\ UNCHANGED <<tax_loader, params, conversion_params, call>>

InitRerun ==
    /\ Init
    /\ client.birth_year \in {1953, Unparseable}
    /\ roth_withdrawal_amount = 0
    /\ pre_retirement_income = 0

NextRerun == Next \/ ProcessAgain \/ NewProcessor

SpecRerun == InitRerun /\ [][NextRerun]_vars

\* C18: a second run that is given the same baseline feed returns the
\* timelines and the metrics the first run returned, whether it is a second
\* process() call on the same processor or a run of a new processor.
C18_SecondRunSameResult ==
    (/\ pc = "done"
     /\ first_result # NoResult
     /\ first_result.feed = earliest_year_in_results)
        => /\ PublishedRows(baseline_results) = first_result.baseline_results
           /\ PublishedRows(conversion_results) = first_result.conversion_results
           /\ metrics = first_result.metrics

(***************************************************************************)
(* Errors of a run (Spec).                                                 *)
(***************************************************************************)
\* no year record exists and no ledger has been written
NothingComputed ==
    /\ pre_retirement_results = << >>
    /\ baseline_results = << >>
    /\ conversion_results = << >>
    /\ metrics = EmptyDict
    /\ asset_balances_by_year = EmptyDict
    /\ roth_balance_by_year = EmptyDict
    /\ magi_history = EmptyDict

\* the plan cannot be run: no start year, no positive duration, or an asset
\* that is asked to convert more than its current balance
InvalidPlan ==
    \/ conversion_start_year = NoYear
    \/ years_to_convert <= 0
    \/ \E i \in 1..Len(assets) : assets[i].max_to_convert > assets[i].current_asset_balance

\* C19: with a missing start year, a duration that is not positive or an
\* asset whose max_to_convert exceeds its balance, the run never gets past
\* the preparation of the assets: it raises, no timeline row is produced and
\* neither the balance ledger, the Roth ledger nor the MAGI history is written.
C19_ErrorBeforeAnyYear ==
    InvalidPlan => (pc \in {"new", "constructed", "raised"} /\ NothingComputed)

\* a run with a valid start year and duration has raised in
\* _prepare_assets_for_conversion
C19_Witness ==
    /\ pc = "raised"
    /\ conversion_start_year # NoYear
    /\ years_to_convert > 0
    /\ \E i \in 1..Len(assets) : assets[i].max_to_convert > assets[i].current_asset_balance

\* the timeline holds a record for every year up to the last projected year
CompleteTimeline(rows) ==
    /\ rows # << >>
    /\ rows[Len(rows)].year = LastYear
    /\ \A k \in 1..(Len(rows) - 1) : rows[k + 1].year = rows[k].year + 1

\* C20: a process() call that returns holds two complete timelines: the
\* baseline and the conversion timeline both run, year by year, to the last
\* projected year; a failure of the baseline computation never ends in a
\* returned result with an empty baseline or a shortened conversion timeline.
C20_CompleteOrRaises ==
    pc = "done" => CompleteTimeline(baseline_results) /\ CompleteTimeline(conversion_results)

\* C21: a client birthdate that cannot be parsed does not abort the run of a
\* valid plan: process() does not raise, every asset of the client has an
\* RMD of 0 in every year, and a returned result holds all year records.
C21_UnparseableBirthdateContinues ==
    (client.birth_year = Unparseable /\ ~InvalidPlan)
        => /\ pc # "raised"
           /\ \A k \in 1..Len(conversion_results) : conversion_results[k].rmd_total = 0
           /\ pc = "done" => CompleteTimeline(conversion_results)

(***************************************************************************)
(* Module tax_csv_loader under concurrent callers (SpecLoader).  Each      *)
(* thread calls get_tax_loader(tax_year) and asks the loader it was given  *)
(* for one table; a step is one line of get_tax_loader or one part of      *)
(* _load_csv between which another thread can run.                         *)
(***************************************************************************)
\* the years whose csv files exist in the tax_data directory
DataYears == {TaxYear}

RequestedYears == {TaxYear, TaxYear + 1}

Tables == {"federal_tax_brackets", "irmaa_thresholds", "federal_estate_tax_brackets"}

Threads == {1, 2}

\* what csv.DictReader yields for a file of a year of DataYears
FileRows(table) ==
    CASE table = "federal_tax_brackets" -> FederalBracketRows
      [] table = "irmaa_thresholds" -> IrmaaRows
      [] OTHER -> EstateBracketRows

\* lines 300-310: the brackets returned when the estate file is not found
DefaultEstateBrackets ==
    << [income_min |-> 0, income_max |-> 13610000, tax_rate |-> 0, base_tax |-> 0],
       [income_min |-> 13610000, income_max |-> EstateTopIncomeMax, tax_rate |-> 40,
        base_tax |-> 0] >>

\* the getter applied to the rows _load_csv returned
TableGetter(table, rows) ==
    IF table = "federal_tax_brackets" THEN get_federal_tax_brackets(rows)
    ELSE get_irmaa_thresholds(rows)

InitLoader ==
    /\ NoClient
    /\ IdleCall
    /\ current_loader = 0
    /\ loaders = << >>
    /\ threads \in [Threads -> [tax_year : RequestedYears, table : Tables, pc : {"test"},
                                loader : {0}, outcome : {"none"}, rows : {<< >>}]]

\* line 366: if _current_loader is None or _current_loader.tax_year != tax_year
GetTaxLoaderTest(t) ==
    /\ threads[t].pc = "test"
    /\ threads' = [threads EXCEPT ![t].pc =
                      IF current_loader = 0
                         \/ loaders[current_loader].tax_year # threads[t].tax_year
                      THEN "create" ELSE "return"]
    /\ UNCHANGED <<params, schedule, ledgers, locals, output, caller, call,
                   current_loader, loaders>>

\* line 367: _current_loader = TaxCSVLoader(tax_year)
GetTaxLoaderCreate(t) ==
    /\ threads[t].pc = "create"
    /\ loaders' = Append(loaders, [tax_year |-> threads[t].tax_year, cache |-> EmptyDict])
    /\ current_loader' = Len(loaders) + 1
    /\ threads' = [threads EXCEPT ![t].pc = "return"]
    /\ UNCHANGED <<params, schedule, ledgers, locals, output, caller, call>>

\* line 368: return _current_loader
GetTaxLoaderReturn(t) ==
    /\ threads[t].pc = "return"
    /\ threads' = [threads EXCEPT ![t].loader = current_loader, ![t].pc = "request"]
    /\ UNCHANGED <<params, schedule, ledgers, locals, output, caller, call,
                   current_loader, loaders>>

\* _load_csv lines 24-32: a cached table is returned, a missing file raises
LoadCsvLookup(t) ==
    /\ threads[t].pc = "request"
    /\ threads[t].table # "federal_estate_tax_brackets"
    /\ LET loader == loaders[threads[t].loader]
           table == threads[t].table
       IN  threads' =
               IF table \in DOMAIN loader.cache
               THEN [threads EXCEPT ![t].pc = "done", ![t].outcome = "rows",
                                    ![t].rows = TableGetter(table, loader.cache[table])]
               ELSE IF loader.tax_year \notin DataYears
               THEN [threads EXCEPT ![t].pc = "done", ![t].outcome = "raised"]
               ELSE [threads EXCEPT ![t].pc = "read"]
    /\ UNCHANGED <<params, schedule, ledgers, locals, output, caller, call,
                   current_loader, loaders>>

\* _load_csv lines 34-59: the file is read and stored in the loader's cache
LoadCsvStore(t) ==
    /\ threads[t].pc = "read"
    /\ LET table == threads[t].table
       IN  /\ loaders' = [loaders EXCEPT ![threads[t].loader].cache =
                             DictSet(@, table, FileRows(table))]
           /\ threads' = [threads EXCEPT ![t].pc = "done", ![t].outcome = "rows",
                                         ![t].rows = TableGetter(table, FileRows(table))]
    /\ UNCHANGED <<params, schedule, ledgers, locals, output, caller, call, current_loader>>

\* get_estate_tax_brackets, lines 286-325
GetEstateTaxBrackets(t) ==
    /\ threads[t].pc = "request"
    /\ threads[t].table = "federal_estate_tax_brackets"
    /\ threads' = [threads EXCEPT
                      ![t].pc = "done", ![t].outcome = "rows",
                      ![t].rows = IF loaders[threads[t].loader].tax_year \in DataYears
                                  THEN get_estate_tax_brackets(FileRows(threads[t].table))
                                  ELSE DefaultEstateBrackets]
    /\ UNCHANGED <<params, schedule, ledgers, locals, output, caller, call,
                   current_loader, loaders>>

NextLoader ==
    \E t \in Threads :
        \/ GetTaxLoaderTest(t)
        \/ GetTaxLoaderCreate(t)
        \/ GetTaxLoaderReturn(t)
        \/ LoadCsvLookup(t)
        \/ LoadCsvStore(t)
        \/ GetEstateTaxBrackets(t)

SpecLoader == InitLoader /\ [][NextLoader]_vars

\* C22: a table asked of a loader whose year has no reference data is never
\* answered with rows: the request raises, for the estate-tax brackets as
\* for every other table, so nothing is computed from substituted data.
C22_MissingYearFails ==
    \A t \in DOMAIN threads :
        (threads[t].pc = "done" /\ loaders[threads[t].loader].tax_year \notin DataYears)
            => threads[t].outcome = "raised"

\* C23: under every interleaving each get_tax_loader(tax_year) call returns a
\* loader of the year it asked for, and whatever a loader has cached for a
\* table is what one single load of that table stores, before and after any
\* read of the table.
C23_LoaderOfRequestedYear ==
    /\ \A t \in DOMAIN threads :
           threads[t].loader # 0
               => loaders[threads[t].loader].tax_year = threads[t].tax_year
    /\ \A l \in 1..Len(loaders) :
           \A table \in DOMAIN loaders[l].cache : loaders[l].cache[table] = FileRows(table)

(***************************************************************************)
(* The conversion schedule in the returned timeline (Spec).                *)
(***************************************************************************)
\* C24: from the second year of the conversion window on, the Roth balance
\* carried in from earlier conversions is grown: when nothing is withdrawn,
\* the ledger at the end of such a year exceeds what was carried in plus what
\* the year contributed.
C24_RothGrowsFromSecondYear ==
    \A k \in 1..Len(conversion_results) :
        LET r == conversion_results[k]
        IN  (/\ InConversionWindow(r.year)
             /\ r.year > conversion_start_year
             /\ r.roth.carried > 0
             /\ r.tax_free_income = 0)
                => r.roth.ending > r.roth.carried + r.roth.contributed

\* the years of the returned conversion timeline with a positive conversion
ConversionYears ==
    {conversion_results[k].year : k \in {j \in 1..Len(conversion_results) :
                                            conversion_results[j].conversion_amount > 0}}

\* C25: the years of the returned conversion timeline that show a positive
\* conversion amount are exactly conversion_start_year ..
\* conversion_start_year + years_to_convert - 1, one record for each.
C25_ConversionYearsAreTheWindow ==
    pc = "done"
        => /\ ConversionYears =
                  conversion_start_year..(conversion_start_year + years_to_convert - 1)
           /\ Cardinality({k \in 1..Len(conversion_results) :
                              conversion_results[k].conversion_amount > 0}) = years_to_convert

\* C26: in every record of the conversion timeline the conversion that is
\* recorded and taxed (roth_conversion) is the amount the projection of that
\* year moved from the asset balances to the Roth ledger.
C26_RecordedConversionIsMoved ==
    \A k \in 1..Len(conversion_results) :
        conversion_results[k].roth_conversion = conversion_results[k].roth.contributed

\* C27: no tax-free Roth withdrawal is taken in a year of the conversion
\* window, the window being counted with the final years_to_convert.
C27_NoWithdrawalInWindow ==
    \A k \in 1..Len(conversion_results) :
        InConversionWindow(conversion_results[k].year)
            => conversion_results[k].tax_free_income = 0

(***************************************************************************)
(* The baseline timeline and the shared ledgers.                           *)
(***************************************************************************)
\* the baseline records process() synthesizes with apply_conversions=False
SynthesizedBaselineRows ==
    {pre_retirement_results[k] : k \in 1..Len(pre_retirement_results)}
        \cup {baseline_results[k] : k \in {j \in 1..Len(baseline_results) :
                                              baseline_results[j].phase = "pre"}}

\* C28: the projection call process() makes for a baseline year leaves the
\* asset ledger and the Roth ledger as they are, and a synthesized baseline
\* record shows no conversion, no Roth ledger balance and no balance taken
\* over from the ledger the conversion timeline writes.
C28_BaselineProjectionHasNoEffect ==
    /\ (pc = "baseline_pre" /\ year < earliest_year_in_results)
           => LET projection == calculate_asset_balances_with_growth(year, FALSE)
              IN  /\ projection.asset_ledger = asset_balances_by_year
                  /\ projection.roth_ledger = roth_balance_by_year
    /\ \A r \in SynthesizedBaselineRows :
           /\ r.roth_ira_balance = 0
           /\ r.roth.contributed = 0
           /\ \A i \in 1..Len(r.assets) : r.assets[i].conv = 0 /\ ~r.assets[i].from_ledger

\* the MAGI the conversion timeline holds for year y, as a set
ConversionMagiOf(y) ==
    {conversion_results[j].magi : j \in {i \in 1..Len(conversion_results) :
                                            conversion_results[i].year = y}}

\* C29: the MAGI that selects the IRMAA tier of a year Y of the conversion
\* timeline is the conversion timeline's MAGI of Y-2 when the conversion
\* timeline holds that year, and the MAGI of Y itself otherwise; it is never
\* a MAGI the baseline timeline recorded.
C29_LookbackReadsConversionMagi ==
    \A k \in 1..Len(conversion_results) :
        LET r == conversion_results[k]
        IN  r.on_medicare
                => r.irmaa_income \in (IF ConversionMagiOf(r.year - 2) # {}
                                       THEN ConversionMagiOf(r.year - 2)
                                       ELSE {r.magi})

\* a record on Medicare whose year Y-2 was synthesized for the baseline with
\* one MAGI and for the conversion timeline with another
C29_Witness ==
    \E k \in 1..Len(conversion_results) :
        \E b \in SynthesizedBaselineRows :
            /\ conversion_results[k].on_medicare
            /\ b.year = conversion_results[k].year - 2
            /\ ConversionMagiOf(b.year) # {}
            /\ b.magi \notin ConversionMagiOf(b.year)
            /\ conversion_results[k].irmaa_income \in ConversionMagiOf(b.year)

\* C30: every ending balance the projection has stored, of an asset or of
\* the Roth account, is at least 0.
C30_StoredBalancesNonNegative ==
    /\ \A y \in DOMAIN asset_balances_by_year :
           \A i \in DOMAIN asset_balances_by_year[y] : asset_balances_by_year[y][i] >= 0
    /\ \A y \in DOMAIN roth_balance_by_year : roth_balance_by_year[y] >= 0

====
